---- MODULE Spec2Model ----
(***************************************************************************)
(* Model of @principal-ai/quality-lens-registry: the static lens registry *)
(* (src/registry.ts), the lookup / derivation helpers over it             *)
(* (src/src/types.ts, lines 631-1156), the extraction utilities           *)
(* (src/extraction.ts) and the default commands per language.             *)
(*                                                                         *)
(* A caller repeatedly invokes one exported helper with arguments drawn   *)
(* from small sets and receives its return value.  JavaScript objects are *)
(* records; an optional property that is absent is a field that is not in *)
(* the record's DOMAIN; arrays are sequences; a Map is a sequence of      *)
(* <<key, value>> entries in insertion order.  The module-level tables    *)
(* are state variables, so that a write to one of them is a state change. *)
(***************************************************************************)
EXTENDS Integers, Sequences, FiniteSets, TLC

VARIABLES
  pc,        \* "idle": the caller is between calls; "done": a call returned
  fn,        \* name of the helper called last
  args,      \* its arguments, a record
  ret,       \* its return value
  registry,          \* the module-level array LENS_REGISTRY that the helpers read
  categoryConfigs,   \* the module-level array CATEGORY_CONFIGS
  languageConfigs,   \* the module-level array LANGUAGE_CONFIGS
  builtInColorModes, \* the module-level array BUILT_IN_COLOR_MODES
  defaultCommands    \* the arrays of default commands that DEFAULT_COMMANDS holds

tables == <<registry, categoryConfigs, languageConfigs, builtInColorModes, defaultCommands>>
vars == <<pc, fn, args, ret, registry, categoryConfigs, languageConfigs, builtInColorModes,
          defaultCommands>>

\* ------------------------------------------------------------------------
\* Bounds of the model
\* ------------------------------------------------------------------------

\* longest lensesRan list passed to a helper
MaxRan ==
  4

\* longest fileMetricsProduced / aggregatesProduced list
MaxProduced ==
  2

\* longest list of lens results handed to an extraction function
MaxResults ==
  2

\* most table objects a caller changes through returned values
MaxWrites ==
  1

\* ------------------------------------------------------------------------
\* JavaScript values
\* ------------------------------------------------------------------------

\* `undefined` where an object is expected (Array.prototype.find miss)
undefined ==
  [undefined |-> TRUE]

\* `undefined` where a string is expected (optional chaining on a miss)
undefinedStr ==
  "undefined"

\* `null` where a string is expected
null ==
  "null"

\* Array.prototype.includes
includes(arr, x) ==
  \E i \in 1..Len(arr) : arr[i] = x

\* all sequences over S of length at most n
SeqsUpTo(S, n) ==
  UNION {[1..k -> S] : k \in 0..n}

\* ------------------------------------------------------------------------
\* Registry data (src/registry.ts)
\* ------------------------------------------------------------------------

lens_eslint ==
  [id |-> "eslint", name |-> "ESLint", category |-> "linting",
   languages |-> <<"typescript", "javascript">>,
   outputsFileMetrics |-> TRUE, outputsAggregate |-> TRUE,
   colorScheme |-> "issues",
   description |-> "Pluggable linting utility for JavaScript and TypeScript"]

lens_biome_lint ==
  [id |-> "biome-lint", name |-> "Biome Lint", category |-> "linting",
   languages |-> <<"typescript", "javascript">>, alternativeTo |-> <<"eslint">>,
   outputsFileMetrics |-> TRUE, outputsAggregate |-> TRUE,
   colorScheme |-> "issues",
   description |-> "Fast linter for JavaScript and TypeScript"]

lens_oxlint ==
  [id |-> "oxlint", name |-> "OxLint", category |-> "linting",
   languages |-> <<"typescript", "javascript">>, alternativeTo |-> <<"eslint", "biome-lint">>,
   outputsFileMetrics |-> TRUE, outputsAggregate |-> TRUE,
   colorScheme |-> "issues",
   description |-> "Blazing fast JavaScript/TypeScript linter"]

lens_ruff ==
  [id |-> "ruff", name |-> "Ruff", category |-> "linting",
   languages |-> <<"python">>, alternativeTo |-> <<"pylint", "flake8">>,
   outputsFileMetrics |-> TRUE, outputsAggregate |-> TRUE,
   colorScheme |-> "issues",
   description |-> "Extremely fast Python linter"]

lens_pylint ==
  [id |-> "pylint", name |-> "Pylint", category |-> "linting",
   languages |-> <<"python">>,
   outputsFileMetrics |-> TRUE, outputsAggregate |-> TRUE,
   colorScheme |-> "issues",
   description |-> "Python static code analyzer"]

lens_golangci_lint ==
  [id |-> "golangci-lint", name |-> "golangci-lint", category |-> "linting",
   languages |-> <<"go">>,
   outputsFileMetrics |-> TRUE, outputsAggregate |-> TRUE,
   colorScheme |-> "issues",
   description |-> "Fast linters runner for Go"]

lens_clippy ==
  [id |-> "clippy", name |-> "Clippy", category |-> "linting",
   languages |-> <<"rust">>,
   outputsFileMetrics |-> TRUE, outputsAggregate |-> TRUE,
   colorScheme |-> "issues",
   description |-> "Rust linter"]

lens_prettier ==
  [id |-> "prettier", name |-> "Prettier", category |-> "formatting",
   languages |-> <<"typescript", "javascript">>,
   outputsFileMetrics |-> TRUE, outputsAggregate |-> TRUE,
   colorScheme |-> "binary",
   description |-> "Opinionated code formatter"]

lens_biome_format ==
  [id |-> "biome-format", name |-> "Biome Format", category |-> "formatting",
   languages |-> <<"typescript", "javascript">>, alternativeTo |-> <<"prettier">>,
   outputsFileMetrics |-> TRUE, outputsAggregate |-> TRUE,
   colorScheme |-> "binary",
   description |-> "Fast code formatter for JavaScript and TypeScript"]

lens_black ==
  [id |-> "black", name |-> "Black", category |-> "formatting",
   languages |-> <<"python">>,
   outputsFileMetrics |-> TRUE, outputsAggregate |-> TRUE,
   colorScheme |-> "binary",
   description |-> "The uncompromising Python code formatter"]

\* the ruff-format record entered under ruff's id
lens_ruff_format_idRuff ==
  [id |-> "ruff", name |-> "Ruff Format", category |-> "formatting",
   languages |-> <<"python">>, alternativeTo |-> <<"black">>,
   outputsFileMetrics |-> TRUE, outputsAggregate |-> TRUE,
   colorScheme |-> "binary",
   description |-> "Fast Python formatter (Ruff)"]

lens_ruff_format ==
  [id |-> "ruff-format", name |-> "Ruff Format", category |-> "formatting",
   languages |-> <<"python">>, alternativeTo |-> <<"black">>,
   outputsFileMetrics |-> TRUE, outputsAggregate |-> TRUE,
   colorScheme |-> "binary",
   description |-> "Fast Python formatter (Ruff)"]

lens_gofmt ==
  [id |-> "gofmt", name |-> "gofmt", category |-> "formatting",
   languages |-> <<"go">>,
   outputsFileMetrics |-> TRUE, outputsAggregate |-> TRUE,
   colorScheme |-> "binary",
   description |-> "Go code formatter"]

lens_rustfmt ==
  [id |-> "rustfmt", name |-> "rustfmt", category |-> "formatting",
   languages |-> <<"rust">>,
   outputsFileMetrics |-> TRUE, outputsAggregate |-> TRUE,
   colorScheme |-> "binary",
   description |-> "Rust code formatter"]

lens_typescript ==
  [id |-> "typescript", name |-> "TypeScript", category |-> "types",
   languages |-> <<"typescript">>,
   outputsFileMetrics |-> TRUE, outputsAggregate |-> TRUE,
   colorScheme |-> "issues",
   description |-> "TypeScript type checker"]

lens_mypy ==
  [id |-> "mypy", name |-> "MyPy", category |-> "types",
   languages |-> <<"python">>,
   outputsFileMetrics |-> TRUE, outputsAggregate |-> TRUE,
   colorScheme |-> "issues",
   description |-> "Static type checker for Python"]

\* the pyright record naming the linter pylint instead of mypy
lens_pyright_altPylint ==
  [id |-> "pyright", name |-> "Pyright", category |-> "types",
   languages |-> <<"python">>, alternativeTo |-> <<"pylint">>,
   outputsFileMetrics |-> TRUE, outputsAggregate |-> TRUE,
   colorScheme |-> "issues",
   description |-> "Static type checker for Python"]

lens_pyright ==
  [id |-> "pyright", name |-> "Pyright", category |-> "types",
   languages |-> <<"python">>, alternativeTo |-> <<"mypy">>,
   outputsFileMetrics |-> TRUE, outputsAggregate |-> TRUE,
   colorScheme |-> "issues",
   description |-> "Static type checker for Python"]

lens_go_vet ==
  [id |-> "go-vet", name |-> "Go Vet", category |-> "types",
   languages |-> <<"go">>,
   outputsFileMetrics |-> TRUE, outputsAggregate |-> TRUE,
   colorScheme |-> "issues",
   description |-> "Go static analyzer"]

lens_jest ==
  [id |-> "jest", name |-> "Jest", category |-> "tests",
   languages |-> <<"typescript", "javascript">>,
   outputsFileMetrics |-> TRUE, outputsAggregate |-> TRUE,
   colorScheme |-> "coverage",
   description |-> "JavaScript testing framework"]

lens_vitest ==
  [id |-> "vitest", name |-> "Vitest", category |-> "tests",
   languages |-> <<"typescript", "javascript">>, alternativeTo |-> <<"jest">>,
   outputsFileMetrics |-> TRUE, outputsAggregate |-> TRUE,
   colorScheme |-> "coverage",
   description |-> "Vite-native testing framework"]

lens_bun_test ==
  [id |-> "bun-test", name |-> "Bun Test", category |-> "tests",
   languages |-> <<"typescript", "javascript">>, alternativeTo |-> <<"jest", "vitest">>,
   outputsFileMetrics |-> TRUE, outputsAggregate |-> TRUE,
   colorScheme |-> "coverage",
   description |-> "Bun native test runner"]

lens_pytest ==
  [id |-> "pytest", name |-> "Pytest", category |-> "tests",
   languages |-> <<"python">>,
   outputsFileMetrics |-> TRUE, outputsAggregate |-> TRUE,
   colorScheme |-> "coverage",
   description |-> "Python testing framework"]

lens_go_test ==
  [id |-> "go-test", name |-> "Go Test", category |-> "tests",
   languages |-> <<"go">>,
   outputsFileMetrics |-> TRUE, outputsAggregate |-> TRUE,
   colorScheme |-> "coverage",
   description |-> "Go test runner"]

lens_cargo_test ==
  [id |-> "cargo-test", name |-> "Cargo Test", category |-> "tests",
   languages |-> <<"rust">>,
   outputsFileMetrics |-> TRUE, outputsAggregate |-> TRUE,
   colorScheme |-> "coverage",
   description |-> "Rust test runner"]

\* the knip record with the hexagon key in place of the category
lens_knip_hexagonKey ==
  [id |-> "knip", name |-> "Knip", category |-> "deadCode",
   languages |-> <<"typescript", "javascript">>,
   outputsFileMetrics |-> TRUE, outputsAggregate |-> TRUE,
   colorScheme |-> "issues",
   description |-> "Find unused files, dependencies and exports"]

lens_knip ==
  [id |-> "knip", name |-> "Knip", category |-> "dead-code",
   languages |-> <<"typescript", "javascript">>,
   outputsFileMetrics |-> TRUE, outputsAggregate |-> TRUE,
   colorScheme |-> "issues",
   description |-> "Find unused files, dependencies and exports"]

lens_vulture ==
  [id |-> "vulture", name |-> "Vulture", category |-> "dead-code",
   languages |-> <<"python">>,
   outputsFileMetrics |-> TRUE, outputsAggregate |-> TRUE,
   colorScheme |-> "issues",
   description |-> "Find dead Python code"]

lens_alexandria ==
  [id |-> "alexandria", name |-> "Alexandria", category |-> "documentation",
   languages |-> <<"typescript", "javascript">>,
   outputsFileMetrics |-> TRUE, outputsAggregate |-> TRUE,
   colorScheme |-> "binary",
   description |-> "Documentation coverage checker"]

lens_typedoc ==
  [id |-> "typedoc", name |-> "TypeDoc", category |-> "documentation",
   languages |-> <<"typescript">>,
   outputsFileMetrics |-> FALSE, outputsAggregate |-> TRUE,
   colorScheme |-> "coverage",
   description |-> "TypeScript documentation generator"]

lens_npm_audit ==
  [id |-> "npm-audit", name |-> "npm audit", category |-> "security",
   languages |-> <<"typescript", "javascript">>,
   outputsFileMetrics |-> FALSE, outputsAggregate |-> TRUE,
   colorScheme |-> "issues",
   description |-> "Check for known vulnerabilities in dependencies"]

lens_bandit ==
  [id |-> "bandit", name |-> "Bandit", category |-> "security",
   languages |-> <<"python">>,
   outputsFileMetrics |-> TRUE, outputsAggregate |-> TRUE,
   colorScheme |-> "issues",
   description |-> "Python security linter"]

LENS_REGISTRY ==
  <<lens_eslint, lens_biome_lint, lens_oxlint, lens_ruff, lens_pylint,
    lens_golangci_lint, lens_clippy, lens_prettier, lens_biome_format, lens_black,
    lens_ruff_format, lens_gofmt, lens_rustfmt, lens_typescript, lens_mypy,
    lens_pyright, lens_go_vet, lens_jest, lens_vitest, lens_bun_test,
    lens_pytest, lens_go_test, lens_cargo_test, lens_knip, lens_vulture,
    lens_alexandria, lens_typedoc, lens_npm_audit, lens_bandit>>

\* the LensCategory union type
LensCategory ==
  {"linting", "formatting", "types", "tests", "dead-code", "documentation",
   "security", "complexity"}

\* ids of the registry, and ids that are in no registry record ('flake8' is
\* named by ruff's alternativeTo but has no record)
RegistryIds ==
  {LENS_REGISTRY[i].id : i \in 1..Len(LENS_REGISTRY)}

UnknownIds ==
  {"flake8", "unknown-tool"}

AnyId ==
  RegistryIds \cup UnknownIds

\* ids the caller puts into lensesRan lists
RanIds ==
  {"eslint", "biome-lint", "prettier", "biome-format", "typescript", "typedoc",
   "flake8"}

\* ids the caller puts into the lensesRan of the hexagon helpers
HexagonRanIds ==
  {"eslint", "jest", "knip", "typedoc", "npm-audit", "flake8"}

\* ids the caller puts into the lists of validateLensOutputs
ValIds ==
  {"eslint", "typedoc", "flake8"}

ProducedIds ==
  {"eslint", "typedoc"}

\* ------------------------------------------------------------------------
\* Map (insertion-ordered): a sequence of <<key, value>> entries
\* ------------------------------------------------------------------------

MapHas(m, k) ==
  \E i \in 1..Len(m) : m[i][1] = k

MapGet(m, k) ==
  m[CHOOSE i \in 1..Len(m) : m[i][1] = k][2]

\* Map.prototype.set: an existing key keeps its position and takes the new
\* value, a new key is appended
MapSet(m, k, v) ==
  IF MapHas(m, k)
    THEN [i \in 1..Len(m) |-> IF m[i][1] = k THEN <<k, v>> ELSE m[i]]
    ELSE Append(m, <<k, v>>)

\* new Map(entries)
RECURSIVE MapFromEntries(_)
MapFromEntries(entries) ==
  IF entries = <<>>
    THEN <<>>
    ELSE LET n == Len(entries)
             m == MapFromEntries(SubSeq(entries, 1, n - 1))
         IN  MapSet(m, entries[n][1], entries[n][2])

\* Array.from(map.values())
MapValues(m) ==
  [i \in 1..Len(m) |-> m[i][2]]

\* ------------------------------------------------------------------------
\* Lens lookups
\* ------------------------------------------------------------------------

\* LENS_REGISTRY.find((lens) => lens.id === id)
getLensById(id) ==
  IF \E i \in 1..Len(registry) : registry[i].id = id
    THEN registry[CHOOSE i \in 1..Len(registry) :
                    /\ registry[i].id = id
                    /\ \A j \in 1..(i - 1) : registry[j].id # id]
    ELSE undefined

\* LENS_REGISTRY.filter((lens) => lens.category === category)
getLensesByCategory(category) ==
  LET keep(lens) == lens.category = category
  IN  SelectSeq(registry, keep)

\* getLensById(lensId)?.category
getCategoryForLens(lensId) ==
  LET lens == getLensById(lensId)
  IN  IF lens = undefined THEN undefinedStr ELSE lens.category

\* other.alternativeTo?.includes(lensId), used as a filter predicate
altIncludes(lens, lensId) ==
  IF "alternativeTo" \in DOMAIN lens
    THEN includes(lens.alternativeTo, lensId)
    ELSE FALSE

\* getAlternatives with the two lists combined the other way round
getAlternatives_ownListFirst(lensId) ==
  LET lens == getLensById(lensId)
      listsThis(other) == altIncludes(other, lensId)
      listedAsAlternative == SelectSeq(registry, listsThis)
      listedByThis(other) == includes(lens.alternativeTo, other.id)
      thisListsAsAlternative ==
        IF "alternativeTo" \in DOMAIN lens
          THEN SelectSeq(registry, listedByThis)
          ELSE <<>>
      all == thisListsAsAlternative \o listedAsAlternative
  IN  IF lens = undefined
        THEN <<>>
        ELSE MapValues(MapFromEntries([i \in 1..Len(all) |-> <<all[i].id, all[i]>>]))

\* getAlternatives that forgets the lenses naming this one
getAlternatives_ownListOnly(lensId) ==
  LET lens == getLensById(lensId)
      listedByThis(other) == includes(lens.alternativeTo, other.id)
      thisListsAsAlternative ==
        IF "alternativeTo" \in DOMAIN lens
          THEN SelectSeq(registry, listedByThis)
          ELSE <<>>
      all == thisListsAsAlternative
  IN  IF lens = undefined
        THEN <<>>
        ELSE MapValues(MapFromEntries([i \in 1..Len(all) |-> <<all[i].id, all[i]>>]))

getAlternatives(lensId) ==
  LET lens == getLensById(lensId)
      listsThis(other) == altIncludes(other, lensId)
      listedAsAlternative == SelectSeq(registry, listsThis)
      listedByThis(other) == includes(lens.alternativeTo, other.id)
      thisListsAsAlternative ==
        IF "alternativeTo" \in DOMAIN lens
          THEN SelectSeq(registry, listedByThis)
          ELSE <<>>
      all == listedAsAlternative \o thisListsAsAlternative
  IN  IF lens = undefined
        THEN <<>>
        ELSE MapValues(MapFromEntries([i \in 1..Len(all) |-> <<all[i].id, all[i]>>]))

\* areLensesAlternatives that looks only at the second lens's list
areLensesAlternatives_secondListOnly(lensId1, lensId2) ==
  LET lens1 == getLensById(lensId1)
      lens2 == getLensById(lensId2)
  IN  IF lens1 = undefined \/ lens2 = undefined
        THEN FALSE
        ELSE IF lens1.category # lens2.category
          THEN FALSE
          ELSE altIncludes(lens2, lensId1) \/ FALSE

\* areLensesAlternatives that looks only at the first lens's list
areLensesAlternatives_firstListOnly(lensId1, lensId2) ==
  LET lens1 == getLensById(lensId1)
      lens2 == getLensById(lensId2)
  IN  IF lens1 = undefined \/ lens2 = undefined
        THEN FALSE
        ELSE IF lens1.category # lens2.category
          THEN FALSE
          ELSE altIncludes(lens1, lensId2) \/ FALSE

\* lenses count as alternatives as soon as they are of one category
areLensesAlternatives_sameCategory(lensId1, lensId2) ==
  LET lens1 == getLensById(lensId1)
      lens2 == getLensById(lensId2)
  IN  IF lens1 = undefined \/ lens2 = undefined
        THEN FALSE
        ELSE lens1.category = lens2.category

areLensesAlternatives(lensId1, lensId2) ==
  LET lens1 == getLensById(lensId1)
      lens2 == getLensById(lensId2)
  IN  IF lens1 = undefined \/ lens2 = undefined
        THEN FALSE
        ELSE IF lens1.category # lens2.category
          THEN FALSE
          ELSE \/ altIncludes(lens1, lensId2)
               \/ altIncludes(lens2, lensId1)
               \/ FALSE

isValidLensId(lensId) ==
  getLensById(lensId) # undefined

\* ------------------------------------------------------------------------
\* Color mode for a category
\* ------------------------------------------------------------------------

\* the for-loop of getColorModeForCategory from position i of lensesRan on
RECURSIVE firstRan(_, _, _)
firstRan(lensesInCategory, lensesRan, i) ==
  IF i > Len(lensesRan)
    THEN null
    ELSE IF \E k \in 1..Len(lensesInCategory) : lensesInCategory[k].id = lensesRan[i]
      THEN lensesRan[i]
      ELSE firstRan(lensesInCategory, lensesRan, i + 1)

\* getColorModeForCategory that walks the category's lenses in registry order
getColorModeForCategory_registryOrder(category, lensesRan) ==
  LET lensesInCategory == getLensesByCategory(category)
      ran == {k \in 1..Len(lensesInCategory) : includes(lensesRan, lensesInCategory[k].id)}
  IN  IF ran = {}
        THEN null
        ELSE lensesInCategory[CHOOSE k \in ran : \A n \in ran : k <= n].id

getColorModeForCategory(category, lensesRan) ==
  firstRan(getLensesByCategory(category), lensesRan, 1)

\* ------------------------------------------------------------------------
\* Validation helpers
\* ------------------------------------------------------------------------

\* the first loop of findCategoryConflicts over lensesRan[1..n]
RECURSIVE groupByCategory(_, _)
groupByCategory(lensesRan, n) ==
  IF n = 0
    THEN <<>>
    ELSE LET byCategory == groupByCategory(lensesRan, n - 1)
             lensId == lensesRan[n]
             category == getCategoryForLens(lensId)
             existing == IF MapHas(byCategory, category)
                           THEN MapGet(byCategory, category)
                           ELSE <<>>
         IN  IF category # undefinedStr
               THEN MapSet(byCategory, category, Append(existing, lensId))
               ELSE byCategory

\* the conflict test with the threshold off by one
conflictEntry_moreThanTwo(entry) ==
  Len(entry[2]) > 2

\* the second loop: entries with more than one lens, in Map order
conflictEntry(entry) ==
  Len(entry[2]) > 1

findCategoryConflicts(lensesRan) ==
  LET byCategory == groupByCategory(lensesRan, Len(lensesRan))
      kept == SelectSeq(byCategory, conflictEntry)
  IN  [i \in 1..Len(kept) |-> [category |-> kept[i][1], lenses |-> kept[i][2]]]

\* the `missing` array built without looking at outputsFileMetrics
missingOutputs_undeclaredFileMetrics(lens, lensId, fileMetricsProduced, aggregatesProduced) ==
  (IF ~includes(fileMetricsProduced, lensId)
     THEN <<"fileMetrics">> ELSE <<>>)
  \o
  (IF lens.outputsAggregate /\ ~includes(aggregatesProduced, lensId)
     THEN <<"aggregate">> ELSE <<>>)

\* the `missing` array built for one known lens
missingOutputs(lens, lensId, fileMetricsProduced, aggregatesProduced) ==
  (IF lens.outputsFileMetrics /\ ~includes(fileMetricsProduced, lensId)
     THEN <<"fileMetrics">> ELSE <<>>)
  \o
  (IF lens.outputsAggregate /\ ~includes(aggregatesProduced, lensId)
     THEN <<"aggregate">> ELSE <<>>)

\* the loop of validateLensOutputs over lensesRan[1..n]
RECURSIVE validateUpTo(_, _, _, _)
validateUpTo(lensesRan, n, fileMetricsProduced, aggregatesProduced) ==
  IF n = 0
    THEN <<>>
    ELSE LET issues == validateUpTo(lensesRan, n - 1, fileMetricsProduced, aggregatesProduced)
             lensId == lensesRan[n]
             lens == getLensById(lensId)
             missing == missingOutputs(lens, lensId, fileMetricsProduced, aggregatesProduced)
         IN  IF lens = undefined
               THEN issues
               ELSE IF Len(missing) > 0
                 THEN Append(issues, [lensId |-> lensId, missing |-> missing])
                 ELSE issues

validateLensOutputs(lensesRan, fileMetricsProduced, aggregatesProduced) ==
  validateUpTo(lensesRan, Len(lensesRan), fileMetricsProduced, aggregatesProduced)

\* ------------------------------------------------------------------------
\* Hexagon metric helpers
\* ------------------------------------------------------------------------

\* the HexagonMetricKey union type
HexagonMetricKey ==
  {"linting", "formatting", "types", "tests", "deadCode", "documentation"}

HEXAGON_METRIC_TO_CATEGORY ==
  [linting |-> "linting",
   formatting |-> "formatting",
   types |-> "types",
   tests |-> "tests",
   deadCode |-> "dead-code",
   documentation |-> "documentation"]

\* the reverse table with the category's own name entered for dead-code
CATEGORY_TO_HEXAGON_METRIC_kebab ==
  ("linting" :> "linting") @@ ("formatting" :> "formatting") @@ ("types" :> "types")
    @@ ("tests" :> "tests") @@ ("dead-code" :> "dead-code")
    @@ ("documentation" :> "documentation")

CATEGORY_TO_HEXAGON_METRIC ==
  ("linting" :> "linting") @@ ("formatting" :> "formatting") @@ ("types" :> "types")
    @@ ("tests" :> "tests") @@ ("dead-code" :> "deadCode")
    @@ ("documentation" :> "documentation")

getCategoryForHexagonMetric(metric) ==
  HEXAGON_METRIC_TO_CATEGORY[metric]

\* a category that is no key of the table reads as undefined
getHexagonMetricForCategory(category) ==
  IF category \in DOMAIN CATEGORY_TO_HEXAGON_METRIC
    THEN CATEGORY_TO_HEXAGON_METRIC[category]
    ELSE undefinedStr

\* a lookup that takes the metric key for the category
getColorModeForHexagonMetric_keyAsCategory(metric, lensesRan) ==
  getColorModeForCategory(metric, lensesRan)

getColorModeForHexagonMetric(metric, lensesRan) ==
  LET category == HEXAGON_METRIC_TO_CATEGORY[metric]
  IN  getColorModeForCategory(category, lensesRan)

isLensInHexagonMetric(lensId, metric) ==
  LET lensCategory == getCategoryForLens(lensId)
  IN  IF lensCategory = undefinedStr
        THEN FALSE
        ELSE HEXAGON_METRIC_TO_CATEGORY[metric] = lensCategory

\* a value of type `string[] | undefined` that is an array
defined(list) ==
  [value |-> list]

\* isHexagonMetricConfigured that treats a missing list like an empty one
isHexagonMetricConfigured_undefinedAsEmpty(metric, lensesRan) ==
  IF lensesRan = undefined
    THEN FALSE
    ELSE IF Len(lensesRan.value) = 0
      THEN FALSE
      ELSE \E i \in 1..Len(lensesRan.value) :
             isLensInHexagonMetric(lensesRan.value[i], metric)

\* lensesRan is `undefined` or defined(list)
isHexagonMetricConfigured(metric, lensesRan) ==
  IF lensesRan = undefined
    THEN TRUE
    ELSE IF Len(lensesRan.value) = 0
      THEN FALSE
      ELSE \E i \in 1..Len(lensesRan.value) :
             isLensInHexagonMetric(lensesRan.value[i], metric)

\* ------------------------------------------------------------------------
\* Strings
\* ------------------------------------------------------------------------

UpperCaseLetters ==
  "ABCDEFGHIJKLMNOPQRSTUVWXYZ"

LowerCaseLetters ==
  "abcdefghijklmnopqrstuvwxyz"

\* String.prototype.toLowerCase on one character
lowerChar(c) ==
  IF \E i \in 1..Len(UpperCaseLetters) : SubSeq(UpperCaseLetters, i, i) = c
    THEN LET i == CHOOSE i \in 1..Len(UpperCaseLetters) : SubSeq(UpperCaseLetters, i, i) = c
         IN  SubSeq(LowerCaseLetters, i, i)
    ELSE c

\* String.prototype.toLowerCase
RECURSIVE toLowerCase(_)
toLowerCase(s) ==
  IF s = ""
    THEN ""
    ELSE lowerChar(SubSeq(s, 1, 1)) \o toLowerCase(SubSeq(s, 2, Len(s)))

\* String.prototype.startsWith
startsWith(s, prefix) ==
  /\ Len(prefix) <= Len(s)
  /\ SubSeq(s, 1, Len(prefix)) = prefix

\* ------------------------------------------------------------------------
\* Language helpers
\* ------------------------------------------------------------------------

LANGUAGE_CONFIGS ==
  <<[id |-> "typescript", name |-> "TypeScript",
     extensions |-> <<".ts", ".tsx", ".mts", ".cts">>, icon |-> "TS"],
    [id |-> "javascript", name |-> "JavaScript",
     extensions |-> <<".js", ".jsx", ".mjs", ".cjs">>, icon |-> "JS"],
    [id |-> "python", name |-> "Python",
     extensions |-> <<".py", ".pyi">>, icon |-> "PY"],
    [id |-> "go", name |-> "Go", extensions |-> <<".go">>, icon |-> "GO"],
    [id |-> "rust", name |-> "Rust", extensions |-> <<".rs">>, icon |-> "RS"],
    [id |-> "java", name |-> "Java", extensions |-> <<".java">>, icon |-> "JV"],
    [id |-> "csharp", name |-> "C#", extensions |-> <<".cs">>, icon |-> "C#"],
    [id |-> "ruby", name |-> "Ruby", extensions |-> <<".rb">>, icon |-> "RB"],
    [id |-> "php", name |-> "PHP", extensions |-> <<".php">>, icon |-> "PHP"]>>

\* detectLanguageFromExtension that accepts any name ending in an extension
detectLanguageFromExtension_suffix(extension) ==
  LET normalizedExt == IF startsWith(extension, ".") THEN extension ELSE "." \o extension
      low == toLowerCase(normalizedExt)
      endsWith(e) == Len(e) <= Len(low) /\ SubSeq(low, Len(low) - Len(e) + 1, Len(low)) = e
      found == {i \in 1..Len(languageConfigs) :
                  \E k \in 1..Len(languageConfigs[i].extensions) :
                    endsWith(languageConfigs[i].extensions[k])}
  IN  IF found = {}
        THEN undefinedStr
        ELSE languageConfigs[CHOOSE i \in found : \A j \in found : i <= j].id

detectLanguageFromExtension(extension) ==
  LET normalizedExt == IF startsWith(extension, ".") THEN extension ELSE "." \o extension
      found == {i \in 1..Len(languageConfigs) :
                  includes(languageConfigs[i].extensions, toLowerCase(normalizedExt))}
  IN  IF found = {}
        THEN undefinedStr
        ELSE languageConfigs[CHOOSE i \in found : \A j \in found : i <= j].id

\* ------------------------------------------------------------------------
\* Extraction utilities (src/extraction.ts)
\* ------------------------------------------------------------------------

\* normalizeLensId that compares the id as given, without lower-casing
normalizeLensId_caseSensitive(lensId) ==
  LET id == lensId
  IN  IF id = "lint" THEN "eslint"
      ELSE IF id = "typecheck" \/ id = "tsc" THEN "typescript"
      ELSE IF id = "format" THEN "prettier"
      ELSE IF id = "test" THEN "jest"
      ELSE id

normalizeLensId(lensId) ==
  LET id == toLowerCase(lensId)
  IN  IF id = "lint" THEN "eslint"
      ELSE IF id = "typecheck" \/ id = "tsc" THEN "typescript"
      ELSE IF id = "format" THEN "prettier"
      ELSE IF id = "test" THEN "jest"
      ELSE id

getFileMetricsKey(lensId) ==
  normalizeLensId(lensId)

\* String.prototype.toUpperCase on one character (to build inputs)
upperChar(c) ==
  IF \E i \in 1..Len(LowerCaseLetters) : SubSeq(LowerCaseLetters, i, i) = c
    THEN LET i == CHOOSE i \in 1..Len(LowerCaseLetters) : SubSeq(LowerCaseLetters, i, i) = c
         IN  SubSeq(UpperCaseLetters, i, i)
    ELSE c

\* every spelling of a lower-case word in mixed case
RECURSIVE CaseVariants(_)
CaseVariants(word) ==
  IF word = ""
    THEN {""}
    ELSE LET c == SubSeq(word, 1, 1)
         IN  {first \o rest : first \in {c, upperChar(c)},
                              rest \in CaseVariants(SubSeq(word, 2, Len(word)))}

\* lens ids the caller hands to normalizeLensId: the aliases, registry ids
\* and ids that only contain an alias, each in every mixed-case spelling
NormalizeWords ==
  {"lint", "typecheck", "tsc", "format", "test",
   "eslint", "linter", "tests", "tsc2", "jest", "biome-lint", "unknown-tool", ""}

NormalizeInputs ==
  UNION {CaseVariants(w) : w \in NormalizeWords}

\* the extensions listed in LANGUAGE_CONFIGS
ListedExtensions ==
  UNION {{LANGUAGE_CONFIGS[i].extensions[k] : k \in 1..Len(LANGUAGE_CONFIGS[i].extensions)} :
           i \in 1..Len(LANGUAGE_CONFIGS)}

\* extensions the caller hands to detectLanguageFromExtension: the listed
\* ones with and without the dot in every mixed-case spelling, and names that
\* only contain or extend a listed extension
ExtensionInputs ==
  UNION {CaseVariants(e) \cup CaseVariants(SubSeq(e, 2, Len(e))) : e \in ListedExtensions}
    \cup {".xyz", "xyz", "x.py", "..py", ".p", ".pyx", ".t", "ts.", ".typescript", "", "."}

\* the empty object literal {}
emptyObject ==
  [k \in {} |-> 0]

\* a write that keeps the value a key already has
setProperty_keepFirst(obj, key, value) ==
  obj @@ (key :> value)

\* obj[key] = value
setProperty(obj, key, value) ==
  (key :> value) @@ obj

\* Object.keys(obj).length
keyCount(obj) ==
  Cardinality(DOMAIN obj)

\* result.lens?.id?.toLowerCase() || 'unknown'
resultLensId(result) ==
  LET lowered == IF "lens" \in DOMAIN result /\ "id" \in DOMAIN result.lens
                   THEN toLowerCase(result.lens.id)
                   ELSE ""
  IN  IF lowered # "" THEN lowered ELSE "unknown"

\* the test `result.coverage?.files`
hasCoverageFiles(result) ==
  "coverage" \in DOMAIN result /\ "files" \in DOMAIN result.coverage

\* the test `result.fileMetrics && result.fileMetrics.length > 0`
hasFileMetrics(result) ==
  "fileMetrics" \in DOMAIN result /\ Len(result.fileMetrics) > 0

\* an accumulator that forgets what is already stored under the key
metricsUnder_forget(fileMetrics, key) ==
  <<>>

\* fileMetrics[key] || []
metricsUnder(fileMetrics, key) ==
  IF key \in DOMAIN fileMetrics THEN fileMetrics[key] ELSE <<>>

\* a return statement that hands out both maps even when they have no key
qualitySlice_alwaysMaps(fileCoverage, fileMetrics) ==
  [fileCoverage |-> fileCoverage, fileMetrics |-> fileMetrics]

\* the return statement of both extraction functions: a field whose map has
\* no key is undefined, modelled as a field that is not in the record
qualitySlice(fileCoverage, fileMetrics) ==
  (IF keyCount(fileCoverage) > 0 THEN [fileCoverage |-> fileCoverage] ELSE emptyObject)
    @@ (IF keyCount(fileMetrics) > 0 THEN [fileMetrics |-> fileMetrics] ELSE emptyObject)

\* the coverage loop of extractQualityDataFromResults over files[1..n]
RECURSIVE writeCoverage(_, _, _)
writeCoverage(fileCoverage, files, n) ==
  IF n = 0
    THEN fileCoverage
    ELSE setProperty(writeCoverage(fileCoverage, files, n - 1), files[n].file, files[n].lines)

\* the loop of extractQualityDataFromResults over results[1..n]
RECURSIVE extractUpTo(_, _)
extractUpTo(results, n) ==
  IF n = 0
    THEN [fileCoverage |-> emptyObject, fileMetrics |-> emptyObject]
    ELSE LET acc == extractUpTo(results, n - 1)
             result == results[n]
             lensId == resultLensId(result)
             key == getFileMetricsKey(lensId)
         IN  [fileCoverage |->
                IF hasCoverageFiles(result)
                  THEN writeCoverage(acc.fileCoverage, result.coverage.files,
                                     Len(result.coverage.files))
                  ELSE acc.fileCoverage,
              fileMetrics |->
                IF hasFileMetrics(result)
                  THEN setProperty(acc.fileMetrics, key,
                                   metricsUnder(acc.fileMetrics, key) \o result.fileMetrics)
                  ELSE acc.fileMetrics]

extractQualityDataFromResults(results) ==
  LET acc == extractUpTo(results, Len(results))
  IN  qualitySlice(acc.fileCoverage, acc.fileMetrics)

\* result.package?.path || ''
packagePathOf(result) ==
  IF "package" \in DOMAIN result /\ "path" \in DOMAIN result.package
    THEN result.package.path
    ELSE ""

toFullPath(packagePath, filePath) ==
  IF packagePath = "" \/ startsWith(filePath, packagePath)
    THEN filePath
    ELSE packagePath \o "/" \o filePath

\* the coverage loop of extractQualityDataWithPaths over files[1..n]
RECURSIVE writeCoverageWithPaths(_, _, _, _)
writeCoverageWithPaths(fileCoverage, files, n, packagePath) ==
  IF n = 0
    THEN fileCoverage
    ELSE setProperty(writeCoverageWithPaths(fileCoverage, files, n - 1, packagePath),
                     toFullPath(packagePath, files[n].file), files[n].lines)

\* result.fileMetrics.map((fm) => ({ ...fm, file: toFullPath(fm.file) }))
prefixedMetrics(fileMetrics, packagePath) ==
  [i \in 1..Len(fileMetrics) |->
     [fileMetrics[i] EXCEPT !.file = toFullPath(packagePath, fileMetrics[i].file)]]

\* the loop of extractQualityDataWithPaths over results[1..n]
RECURSIVE extractWithPathsUpTo(_, _)
extractWithPathsUpTo(results, n) ==
  IF n = 0
    THEN [fileCoverage |-> emptyObject, fileMetrics |-> emptyObject]
    ELSE LET acc == extractWithPathsUpTo(results, n - 1)
             result == results[n]
             lensId == resultLensId(result)
             packagePath == packagePathOf(result)
             key == getFileMetricsKey(lensId)
         IN  [fileCoverage |->
                IF hasCoverageFiles(result)
                  THEN writeCoverageWithPaths(acc.fileCoverage, result.coverage.files,
                                              Len(result.coverage.files), packagePath)
                  ELSE acc.fileCoverage,
              fileMetrics |->
                IF hasFileMetrics(result)
                  THEN setProperty(acc.fileMetrics, key,
                                   metricsUnder(acc.fileMetrics, key)
                                     \o prefixedMetrics(result.fileMetrics, packagePath))
                  ELSE acc.fileMetrics]

extractQualityDataWithPaths(results, prefixPaths) ==
  IF ~prefixPaths
    THEN extractQualityDataFromResults(results)
    ELSE LET acc == extractWithPathsUpTo(results, Len(results))
         IN  qualitySlice(acc.fileCoverage, acc.fileMetrics)

\* ------------------------------------------------------------------------
\* Lens results handed to the extraction functions
\* ------------------------------------------------------------------------

\* a FileMetricData record
fileMetric(file, score, issueCount) ==
  [file |-> file, score |-> score, issueCount |-> issueCount, errorCount |-> 0,
   warningCount |-> issueCount, infoCount |-> 0, hintCount |-> 0]

\* the `lens` property: absent, a test lens, a linter in mixed case, an alias
SampleLens ==
  {emptyObject, [lens |-> [id |-> "jest"]], [lens |-> [id |-> "ESLint"]],
   [lens |-> [id |-> "lint"]]}

\* the `package` property: absent, or a package at the path 'pkg'
SamplePackage ==
  {emptyObject, [package |-> [name |-> "core", path |-> "pkg"]]}

\* the `coverage` property: with a file listed twice, with a path already
\* under 'pkg/', with a path that only begins with the letters of 'pkg'
SampleCoverage ==
  {[coverage |-> [files |-> <<[file |-> "a.ts", lines |-> 80],
                              [file |-> "b.ts", lines |-> 50],
                              [file |-> "a.ts", lines |-> 85]>>]],
   [coverage |-> [files |-> <<[file |-> "pkg/a.ts", lines |-> 90]>>]],
   [coverage |-> [files |-> <<[file |-> "pkg2/a.ts", lines |-> 60],
                              [file |-> "a.ts", lines |-> 70]>>]]}

\* the `fileMetrics` property: one entry, several entries
SampleFileMetrics ==
  {[fileMetrics |-> <<fileMetric("a.ts", 90, 1)>>],
   [fileMetrics |-> <<fileMetric("pkg/b.ts", 100, 0), fileMetric("pkg2/b.ts", 40, 6),
                      fileMetric("a.ts", 70, 3)>>]}

\* results with coverage only, with file metrics only, with both, with
\* neither, and with empty lists
SampleResults ==
  {l @@ p @@ c : l \in {[lens |-> [id |-> "jest"]], [lens |-> [id |-> "ESLint"]]},
                 p \in SamplePackage, c \in SampleCoverage}
    \cup {l @@ p @@ m : l \in SampleLens \ {[lens |-> [id |-> "jest"]]},
                        p \in SamplePackage, m \in SampleFileMetrics}
    \cup {emptyObject,
          [coverage |-> [line |-> 75]],
          [coverage |-> [files |-> <<>>]],
          [fileMetrics |-> <<>>],
          [lens |-> [id |-> "ESLint"], package |-> [name |-> "core", path |-> "pkg"],
           coverage |-> [files |-> <<>>], fileMetrics |-> <<>>],
          [coverage |-> [files |-> <<[file |-> "a.ts", lines |-> 60]>>]],
          [lens |-> [id |-> ""], fileMetrics |-> <<fileMetric("c.ts", 100, 0)>>],
          [lens |-> [id |-> "jest"],
           package |-> [name |-> "core"],
           coverage |-> [files |-> <<[file |-> "a.ts", lines |-> 95]>>],
           fileMetrics |-> <<fileMetric("a.ts", 95, 0)>>]}

\* ------------------------------------------------------------------------
\* Color mode helpers
\* ------------------------------------------------------------------------

CATEGORY_CONFIGS ==
  << [id |-> "linting", name |-> "Linting",
      description |-> "Code style and bug detection", icon |-> "AlertCircle"],
     [id |-> "formatting", name |-> "Formatting",
      description |-> "Code formatting consistency", icon |-> "AlignLeft"],
     [id |-> "types", name |-> "Types",
      description |-> "Type safety and checking", icon |-> "FileType"],
     [id |-> "tests", name |-> "Tests",
      description |-> "Test coverage and results", icon |-> "TestTube"],
     [id |-> "dead-code", name |-> "Dead Code",
      description |-> "Unused code detection", icon |-> "Trash2", invertedScale |-> TRUE],
     [id |-> "documentation", name |-> "Documentation",
      description |-> "Documentation coverage", icon |-> "FileText"],
     [id |-> "security", name |-> "Security",
      description |-> "Security vulnerability scanning", icon |-> "Shield"],
     [id |-> "complexity", name |-> "Complexity",
      description |-> "Code complexity metrics", icon |-> "GitBranch"] >>

\* CATEGORY_CONFIGS.find((c) => c.id === category)
getCategoryConfig(category) ==
  IF \E i \in 1..Len(categoryConfigs) : categoryConfigs[i].id = category
    THEN categoryConfigs[CHOOSE i \in 1..Len(categoryConfigs) :
                            /\ categoryConfigs[i].id = category
                            /\ \A j \in 1..(i - 1) : categoryConfigs[j].id # category]
    ELSE undefined

BUILT_IN_COLOR_MODES ==
  << [id |-> "fileTypes", name |-> "File Types",
      description |-> "Color by file extension/type", icon |-> "FileCode",
      colorScheme |-> "categorical", isBuiltIn |-> TRUE],
     [id |-> "git", name |-> "Git Status",
      description |-> "Color by git status (modified, added, etc.)", icon |-> "GitBranch",
      colorScheme |-> "categorical", isBuiltIn |-> TRUE],
     [id |-> "coverage", name |-> "Test Coverage",
      description |-> "Color by test coverage percentage", icon |-> "TestTube",
      colorScheme |-> "coverage", isBuiltIn |-> TRUE, category |-> "tests"] >>

\* every lens of the registry, whether it outputs file metrics or not
getLensColorModes_allLenses ==
  [i \in 1..Len(registry) |-> registry[i].id]

\* LENS_REGISTRY.filter((lens) => lens.outputsFileMetrics).map((lens) => lens.id)
getLensColorModes ==
  LET outputs(lens) == lens.outputsFileMetrics
      filtered == SelectSeq(registry, outputs)
  IN  [i \in 1..Len(filtered) |-> filtered[i].id]

\* a config for every lens of the registry, whether it outputs file metrics or not
getColorModeConfig_anyLens(mode) ==
  IF \E i \in 1..Len(builtInColorModes) : builtInColorModes[i].id = mode
    THEN builtInColorModes[CHOOSE i \in 1..Len(builtInColorModes) :
                                builtInColorModes[i].id = mode]
    ELSE LET lens == getLensById(mode)
         IN  IF lens # undefined
               THEN [id |-> mode, name |-> lens.name, description |-> lens.description,
                     icon |-> getCategoryConfig(lens.category).icon,
                     colorScheme |-> lens.colorScheme, isBuiltIn |-> FALSE,
                     category |-> lens.category]
               ELSE undefined

getColorModeConfig(mode) ==
  IF \E i \in 1..Len(builtInColorModes) : builtInColorModes[i].id = mode
    THEN builtInColorModes[CHOOSE i \in 1..Len(builtInColorModes) :
                                /\ builtInColorModes[i].id = mode
                                /\ \A j \in 1..(i - 1) : builtInColorModes[j].id # mode]
    ELSE LET lens == getLensById(mode)
         IN  IF lens # undefined /\ lens.outputsFileMetrics
               THEN LET category == getCategoryConfig(lens.category)
                    IN  [id |-> mode,
                         name |-> lens.name,
                         description |-> IF "description" \in DOMAIN lens
                                           THEN lens.description
                                           ELSE lens.name \o " analysis",
                         colorScheme |-> lens.colorScheme,
                         isBuiltIn |-> FALSE,
                         category |-> lens.category]
                          @@ (IF category # undefined /\ "icon" \in DOMAIN category
                                THEN [icon |-> category.icon]
                                ELSE emptyObject)
               ELSE undefined

\* the array that the pushes of getAllColorModeConfigs go to is the table itself
builtInColorModesAfterGetAll_noCopy(pushed) ==
  builtInColorModes \o pushed

\* BUILT_IN_COLOR_MODES after getAllColorModeConfigs pushed the given configs:
\* `configs` is the copy made by the spread [...BUILT_IN_COLOR_MODES], so the
\* table keeps its entries
builtInColorModesAfterGetAll(pushed) ==
  builtInColorModes

\* the configs that the loop of getAllColorModeConfigs pushes
lensColorModeConfigs ==
  LET outputs(lens) == lens.outputsFileMetrics
      lenses == SelectSeq(registry, outputs)
      config(lens) ==
        LET category == getCategoryConfig(lens.category)
        IN  [id |-> lens.id,
             name |-> lens.name,
             description |-> IF "description" \in DOMAIN lens
                               THEN lens.description
                               ELSE lens.name \o " analysis",
             colorScheme |-> lens.colorScheme,
             isBuiltIn |-> FALSE,
             category |-> lens.category]
              @@ (IF category # undefined /\ "icon" \in DOMAIN category
                    THEN [icon |-> category.icon]
                    ELSE emptyObject)
  IN  [i \in 1..Len(lenses) |-> config(lenses[i])]

getAllColorModeConfigs ==
  builtInColorModes \o lensColorModeConfigs

\* the literal ['fileTypes', 'git', 'coverage']
builtIn ==
  <<"fileTypes", "git", "coverage">>

\* a filter that keeps every id of the registry
getAvailableColorModesFromLenses_anyLens(lensesRan) ==
  LET known(lensId) == getLensById(lensId) # undefined
  IN  builtIn \o SelectSeq(lensesRan, known)

getAvailableColorModesFromLenses(lensesRan) ==
  LET keep(lensId) == LET lens == getLensById(lensId)
                      IN  lens # undefined /\ lens.outputsFileMetrics
  IN  builtIn \o SelectSeq(lensesRan, keep)

getColorModesForLanguage(language) ==
  LET supports(lens) == lens.outputsFileMetrics /\ includes(lens.languages, language)
      filtered == SelectSeq(registry, supports)
  IN  <<"fileTypes", "git">> \o [i \in 1..Len(filtered) |-> filtered[i].id]

isColorModeAvailable(mode, lensesRan) ==
  IF mode = "fileTypes" \/ mode = "git" \/ mode = "coverage"
    THEN TRUE
    ELSE includes(lensesRan, mode)

\* color modes the caller asks the availability of: the built-in ones, lenses
\* that output file metrics and lenses that do not
AvailabilityModes ==
  {"fileTypes", "git", "coverage", "eslint", "jest", "typedoc", "npm-audit"}

\* ids the caller puts into the lensesRan list of isColorModeAvailable
AvailabilityRanIds ==
  {"eslint", "typedoc", "npm-audit"}

\* color modes the caller asks a config for
ModeInputs ==
  {"fileTypes", "git", "coverage"} \cup AnyId

\* ids the caller puts into the lensesRan list of getAvailableColorModesFromLenses
ColorRanIds ==
  {"eslint", "jest", "typedoc", "npm-audit", "flake8", "coverage"}

\* ------------------------------------------------------------------------
\* Default commands per language (default commands module)
\* ------------------------------------------------------------------------

\* the Language union type
Language ==
  {"typescript", "javascript", "python", "go", "rust", "java", "csharp", "ruby", "php"}

JAVASCRIPT_DEFAULTS ==
  << [lensId |-> "jest", command |-> "npx jest",
      cliArgs |-> <<"--json", "--coverage", "--passWithNoTests">>,
      description |-> "Run Jest tests with coverage"],
     [lensId |-> "vitest", command |-> "npx vitest run",
      cliArgs |-> <<"--reporter=json", "--coverage">>,
      description |-> "Run Vitest tests with coverage"],
     [lensId |-> "bun-test", command |-> "bun test",
      cliArgs |-> <<"--coverage">>,
      description |-> "Run Bun tests with coverage"],
     [lensId |-> "eslint", command |-> "npx eslint .",
      cliArgs |-> <<"--format=json">>,
      description |-> "Run ESLint"],
     [lensId |-> "biome-lint", command |-> "npx @biomejs/biome lint .",
      cliArgs |-> <<"--reporter=json">>,
      description |-> "Run Biome linter"],
     [lensId |-> "oxlint", command |-> "npx oxlint",
      cliArgs |-> <<"--format=json">>,
      description |-> "Run oxlint"],
     [lensId |-> "prettier", command |-> "npx prettier --check .",
      cliArgs |-> <<>>,
      description |-> "Check Prettier formatting"],
     [lensId |-> "biome-format", command |-> "npx @biomejs/biome format .",
      cliArgs |-> <<"--reporter=json">>,
      description |-> "Check Biome formatting"],
     [lensId |-> "typescript", command |-> "npx tsc --noEmit",
      cliArgs |-> <<>>,
      description |-> "Run TypeScript type checking"],
     [lensId |-> "knip", command |-> "npx knip",
      cliArgs |-> <<"--reporter=json">>,
      description |-> "Find unused code with Knip"],
     [lensId |-> "alexandria", command |-> "npx @anthropic-ai/alexandria lint",
      cliArgs |-> <<>>,
      description |-> "Check documentation coverage"] >>

PYTHON_DEFAULTS ==
  << [lensId |-> "pytest", command |-> "pytest",
      cliArgs |-> <<"--json-report", "--cov", "--cov-report=json">>,
      description |-> "Run pytest with coverage"],
     [lensId |-> "ruff", command |-> "ruff check .",
      cliArgs |-> <<"--output-format=json">>,
      description |-> "Run Ruff linter"],
     [lensId |-> "pylint", command |-> "pylint",
      cliArgs |-> <<"--output-format=json">>,
      description |-> "Run Pylint"],
     [lensId |-> "black", command |-> "black --check .",
      cliArgs |-> <<>>,
      description |-> "Check Black formatting"],
     [lensId |-> "ruff-format", command |-> "ruff format --check .",
      cliArgs |-> <<>>,
      description |-> "Check Ruff formatting"],
     [lensId |-> "mypy", command |-> "mypy .",
      cliArgs |-> <<"--output=json">>,
      description |-> "Run MyPy type checking"],
     [lensId |-> "pyright", command |-> "pyright",
      cliArgs |-> <<"--outputjson">>,
      description |-> "Run Pyright type checking"],
     [lensId |-> "vulture", command |-> "vulture .",
      cliArgs |-> <<>>,
      description |-> "Find dead code with Vulture"],
     [lensId |-> "bandit", command |-> "bandit -r .",
      cliArgs |-> <<"--format=json">>,
      description |-> "Security scan with Bandit"] >>

GO_DEFAULTS ==
  << [lensId |-> "go-test", command |-> "go test ./...",
      cliArgs |-> <<"-json", "-cover">>,
      description |-> "Run Go tests with coverage"],
     [lensId |-> "golangci-lint", command |-> "golangci-lint run",
      cliArgs |-> <<"--out-format=json">>,
      description |-> "Run golangci-lint"],
     [lensId |-> "gofmt", command |-> "gofmt -l .",
      cliArgs |-> <<>>,
      description |-> "Check Go formatting"],
     [lensId |-> "go-vet", command |-> "go vet ./...",
      cliArgs |-> <<"-json">>,
      description |-> "Run go vet"] >>

RUST_DEFAULTS ==
  << [lensId |-> "cargo-test", command |-> "cargo test",
      cliArgs |-> <<"--", "--format=json">>,
      description |-> "Run Cargo tests"],
     [lensId |-> "clippy", command |-> "cargo clippy",
      cliArgs |-> <<"--message-format=json">>,
      description |-> "Run Clippy linter"],
     [lensId |-> "rustfmt", command |-> "cargo fmt --check",
      cliArgs |-> <<>>,
      description |-> "Check Rust formatting"] >>

\* DEFAULT_COMMANDS, its properties in the order they are written: each
\* holds an array object, named here after the constant or, for an array
\* literal, after the language; typescript and javascript hold the same array
DEFAULT_COMMANDS ==
  << [language |-> "typescript", array |-> "JAVASCRIPT_DEFAULTS"],
     [language |-> "javascript", array |-> "JAVASCRIPT_DEFAULTS"],
     [language |-> "python", array |-> "PYTHON_DEFAULTS"],
     [language |-> "go", array |-> "GO_DEFAULTS"],
     [language |-> "rust", array |-> "RUST_DEFAULTS"],
     [language |-> "java", array |-> "java"],
     [language |-> "csharp", array |-> "csharp"],
     [language |-> "ruby", array |-> "ruby"],
     [language |-> "php", array |-> "php"] >>

\* the contents of the array objects when the module is loaded
DefaultCommandArrays ==
  [JAVASCRIPT_DEFAULTS |-> JAVASCRIPT_DEFAULTS,
   PYTHON_DEFAULTS |-> PYTHON_DEFAULTS,
   GO_DEFAULTS |-> GO_DEFAULTS,
   RUST_DEFAULTS |-> RUST_DEFAULTS,
   java |-> <<>>, csharp |-> <<>>, ruby |-> <<>>, php |-> <<>>]

\* the array object that DEFAULT_COMMANDS[language] is, undefined for a name
\* that is no property
commandsArrayOf(language) ==
  IF \E i \in 1..Len(DEFAULT_COMMANDS) : DEFAULT_COMMANDS[i].language = language
    THEN (CHOOSE entry \in {DEFAULT_COMMANDS[i] : i \in 1..Len(DEFAULT_COMMANDS)} :
            entry.language = language).array
    ELSE undefinedStr

\* DEFAULT_COMMANDS[language] || []
getDefaultCommands(language) ==
  IF commandsArrayOf(language) # undefinedStr
    THEN defaultCommands[commandsArrayOf(language)]
    ELSE <<>>

\* commands.find((cmd) => cmd.lensId === lensId)
findCommand(commands, lensId) ==
  IF \E i \in 1..Len(commands) : commands[i].lensId = lensId
    THEN commands[CHOOSE i \in 1..Len(commands) :
                    /\ commands[i].lensId = lensId
                    /\ \A j \in 1..(i - 1) : commands[j].lensId # lensId]
    ELSE undefined

\* the loop of getDefaultCommand over Object.values(DEFAULT_COMMANDS) from
\* position i on
RECURSIVE searchAllLanguages(_, _)
searchAllLanguages(lensId, i) ==
  IF i > Len(DEFAULT_COMMANDS)
    THEN undefined
    ELSE LET found == findCommand(defaultCommands[DEFAULT_COMMANDS[i].array], lensId)
         IN  IF found # undefined THEN found ELSE searchAllLanguages(lensId, i + 1)

\* language is a Language or undefinedStr when the argument is left out
getDefaultCommand(lensId, language) ==
  IF language # undefinedStr /\ language # ""
    THEN IF commandsArrayOf(language) # undefinedStr
           THEN findCommand(defaultCommands[commandsArrayOf(language)], lensId)
           ELSE undefined
    ELSE searchAllLanguages(lensId, 1)

\* ------------------------------------------------------------------------
\* Returned values and the objects of the tables
\* ------------------------------------------------------------------------

\* a returned container that the helper constructed
fresh ==
  [table |-> "none"]

\* position of the first element of a table with the given id
firstWithId(table, id) ==
  CHOOSE i \in 1..Len(table) :
    /\ table[i].id = id
    /\ \A j \in 1..(i - 1) : table[j].id # id

\* the object that each helper hands to its caller: the return statements
\* `return LENS_REGISTRY.find(...)`, `if (builtIn) return builtIn` and
\* `return DEFAULT_COMMANDS[language] || []` return an object of a table,
\* filter and an object literal construct a new one
returnedObject(name, a) ==
  CASE name = "getLensById" /\ getLensById(a.id) # undefined ->
         [table |-> "registry", at |-> firstWithId(registry, a.id)]
    [] name = "getColorModeConfig"
         /\ \E i \in 1..Len(builtInColorModes) : builtInColorModes[i].id = a.mode ->
         [table |-> "builtInColorModes", at |-> firstWithId(builtInColorModes, a.mode)]
    [] name = "getDefaultCommands" /\ commandsArrayOf(a.language) # undefinedStr ->
         [table |-> "defaultCommands", at |-> commandsArrayOf(a.language)]
    [] OTHER -> fresh

\* the helpers whose return value is an array
ReturnsArray ==
  {"getLensesByCategory", "getDefaultCommands"}

\* the helpers whose return value is an object with a name, or undefined
ReturnsNamedObject ==
  {"getLensById", "getColorModeConfig"}

\* what a caller's write makes of a container: an array is emptied
\* (`list.length = 0`), an object gets another name (`obj.name = 'changed'`)
written(name, container) ==
  IF name \in ReturnsArray
    THEN <<>>
    ELSE [container EXCEPT !.name = "changed"]

\* the objects of the tables that no longer have the contents they were
\* loaded with
changedObjects ==
  {[table |-> "registry", at |-> i] : i \in {j \in 1..Len(registry) : registry[j] # LENS_REGISTRY[j]}}
    \cup {[table |-> "builtInColorModes", at |-> i] :
            i \in {j \in 1..Len(builtInColorModes) :
                     builtInColorModes[j] # BUILT_IN_COLOR_MODES[j]}}
    \cup {[table |-> "defaultCommands", at |-> n] :
            n \in {m \in DOMAIN defaultCommands : defaultCommands[m] # DefaultCommandArrays[m]}}

\* ------------------------------------------------------------------------
\* The caller
\* ------------------------------------------------------------------------

Init ==
  /\ pc = "idle"
  /\ fn = "none"
  /\ args = <<>>
  /\ ret = <<>>
  /\ registry = LENS_REGISTRY
  /\ categoryConfigs = CATEGORY_CONFIGS
  /\ languageConfigs = LANGUAGE_CONFIGS
  /\ builtInColorModes = BUILT_IN_COLOR_MODES
  /\ defaultCommands = DefaultCommandArrays

\* a helper returns: none of them writes to the tables
Returns(name, a, r) ==
  /\ pc' = "done"
  /\ fn' = name
  /\ args' = a
  /\ ret' = r
  /\ UNCHANGED tables

CallGetLensById ==
  /\ pc = "idle"
  /\ \E id \in AnyId :
       Returns("getLensById", [id |-> id], getLensById(id))

CallGetLensesByCategory ==
  /\ pc = "idle"
  /\ \E c \in LensCategory :
       Returns("getLensesByCategory", [category |-> c], getLensesByCategory(c))

CallGetCategoryForLens ==
  /\ pc = "idle"
  /\ \E id \in AnyId :
       Returns("getCategoryForLens", [lensId |-> id], getCategoryForLens(id))

CallIsValidLensId ==
  /\ pc = "idle"
  /\ \E id \in AnyId :
       Returns("isValidLensId", [lensId |-> id], isValidLensId(id))

CallGetAlternatives ==
  /\ pc = "idle"
  /\ \E id \in AnyId :
       Returns("getAlternatives", [lensId |-> id], getAlternatives(id))

CallAreLensesAlternatives ==
  /\ pc = "idle"
  /\ \E id1 \in AnyId, id2 \in AnyId :
       Returns("areLensesAlternatives", [lensId1 |-> id1, lensId2 |-> id2],
               areLensesAlternatives(id1, id2))

CallGetColorModeForCategory ==
  /\ pc = "idle"
  /\ \E c \in LensCategory, ran \in SeqsUpTo(RanIds, MaxRan) :
       Returns("getColorModeForCategory", [category |-> c, lensesRan |-> ran],
               getColorModeForCategory(c, ran))

CallFindCategoryConflicts ==
  /\ pc = "idle"
  /\ \E ran \in SeqsUpTo(RanIds, MaxRan) :
       Returns("findCategoryConflicts", [lensesRan |-> ran], findCategoryConflicts(ran))

CallValidateLensOutputs ==
  /\ pc = "idle"
  /\ \E ran \in SeqsUpTo(ValIds, MaxRan),
        fm \in SeqsUpTo(ProducedIds, MaxProduced),
        ag \in SeqsUpTo(ProducedIds, MaxProduced) :
       Returns("validateLensOutputs",
               [lensesRan |-> ran, fileMetricsProduced |-> fm, aggregatesProduced |-> ag],
               validateLensOutputs(ran, fm, ag))

CallIsHexagonMetricConfigured ==
  /\ pc = "idle"
  /\ \E metric \in HexagonMetricKey,
        lensesRan \in {undefined} \cup {defined(ran) : ran \in SeqsUpTo(HexagonRanIds, MaxRan)} :
       Returns("isHexagonMetricConfigured", [metric |-> metric, lensesRan |-> lensesRan],
               isHexagonMetricConfigured(metric, lensesRan))

CallGetCategoryForHexagonMetric ==
  /\ pc = "idle"
  /\ \E metric \in HexagonMetricKey :
       Returns("getCategoryForHexagonMetric", [metric |-> metric],
               getCategoryForHexagonMetric(metric))

CallGetHexagonMetricForCategory ==
  /\ pc = "idle"
  /\ \E category \in LensCategory :
       Returns("getHexagonMetricForCategory", [category |-> category],
               getHexagonMetricForCategory(category))

CallGetColorModeForHexagonMetric ==
  /\ pc = "idle"
  /\ \E metric \in HexagonMetricKey, ran \in SeqsUpTo(HexagonRanIds, MaxRan) :
       Returns("getColorModeForHexagonMetric", [metric |-> metric, lensesRan |-> ran],
               getColorModeForHexagonMetric(metric, ran))

CallNormalizeLensId ==
  /\ pc = "idle"
  /\ \E lensId \in NormalizeInputs :
       Returns("normalizeLensId", [lensId |-> lensId], normalizeLensId(lensId))

CallDetectLanguageFromExtension ==
  /\ pc = "idle"
  /\ \E extension \in ExtensionInputs :
       Returns("detectLanguageFromExtension", [extension |-> extension],
               detectLanguageFromExtension(extension))

CallExtractQualityDataFromResults ==
  /\ pc = "idle"
  /\ \E results \in SeqsUpTo(SampleResults, MaxResults) :
       Returns("extractQualityDataFromResults", [results |-> results],
               extractQualityDataFromResults(results))

CallExtractQualityDataWithPaths ==
  /\ pc = "idle"
  /\ \E results \in SeqsUpTo(SampleResults, MaxResults), prefixPaths \in BOOLEAN :
       Returns("extractQualityDataWithPaths",
               [results |-> results, prefixPaths |-> prefixPaths],
               extractQualityDataWithPaths(results, prefixPaths))

CallGetLensColorModes ==
  /\ pc = "idle"
  /\ Returns("getLensColorModes", emptyObject, getLensColorModes)

CallGetColorModeConfig ==
  /\ pc = "idle"
  /\ \E mode \in ModeInputs :
       Returns("getColorModeConfig", [mode |-> mode], getColorModeConfig(mode))

CallGetAvailableColorModesFromLenses ==
  /\ pc = "idle"
  /\ \E ran \in SeqsUpTo(ColorRanIds, MaxRan) :
       Returns("getAvailableColorModesFromLenses", [lensesRan |-> ran],
               getAvailableColorModesFromLenses(ran))

CallGetDefaultCommands ==
  /\ pc = "idle"
  /\ \E language \in Language :
       Returns("getDefaultCommands", [language |-> language], getDefaultCommands(language))

CallGetDefaultCommand ==
  /\ pc = "idle"
  /\ \E lensId \in AnyId, language \in Language \cup {undefinedStr} :
       Returns("getDefaultCommand", [lensId |-> lensId, language |-> language],
               getDefaultCommand(lensId, language))

\* the caller writes to the container it was handed; when the container is an
\* object of a table, the table holds the written object
WriteToReturned ==
  /\ pc = "done"
  /\ fn \in ReturnsArray \cup ReturnsNamedObject
  /\ fn \in ReturnsNamedObject => ret # undefined
  /\ LET object == returnedObject(fn, args)
     IN  /\ object = fresh \/ object \in changedObjects \/ Cardinality(changedObjects) < MaxWrites
         /\ ret' = written(fn, ret)
         /\ registry' = IF object.table = "registry"
                          THEN [registry EXCEPT ![object.at] = written(fn, @)]
                          ELSE registry
         /\ builtInColorModes' = IF object.table = "builtInColorModes"
                                   THEN [builtInColorModes EXCEPT ![object.at] = written(fn, @)]
                                   ELSE builtInColorModes
         /\ defaultCommands' = IF object.table = "defaultCommands"
                                 THEN [defaultCommands EXCEPT ![object.at] = written(fn, @)]
                                 ELSE defaultCommands
  /\ UNCHANGED <<pc, fn, args, categoryConfigs, languageConfigs>>

CallGetColorModesForLanguage ==
  /\ pc = "idle"
  /\ \E language \in Language :
       Returns("getColorModesForLanguage", [language |-> language],
               getColorModesForLanguage(language))

CallIsColorModeAvailable ==
  /\ pc = "idle"
  /\ \E mode \in AvailabilityModes, ran \in SeqsUpTo(AvailabilityRanIds, MaxRan) :
       Returns("isColorModeAvailable", [mode |-> mode, lensesRan |-> ran],
               isColorModeAvailable(mode, ran))

CallGetAllColorModeConfigs ==
  /\ pc = "idle"
  /\ pc' = "done"
  /\ fn' = "getAllColorModeConfigs"
  /\ args' = emptyObject
  /\ ret' = getAllColorModeConfigs
  /\ builtInColorModes' = builtInColorModesAfterGetAll(lensColorModeConfigs)
  /\ UNCHANGED <<registry, categoryConfigs, languageConfigs, defaultCommands>>

\* the caller drops the result and is ready for the next call
Continue ==
  /\ pc = "done"
  /\ pc' = "idle"
  /\ fn' = "none"
  /\ args' = <<>>
  /\ ret' = <<>>
  /\ UNCHANGED tables

\* a caller of the lens lookups and of the alternative queries
Next ==
  \/ CallGetLensById
  \/ CallGetLensesByCategory
  \/ CallGetCategoryForLens
  \/ CallIsValidLensId
  \/ CallGetAlternatives
  \/ CallAreLensesAlternatives
  \/ Continue

Spec ==
  Init /\ [][Next]_vars

\* a caller of the helpers that take the list of lenses that ran
NextRan ==
  \/ CallGetColorModeForCategory
  \/ CallFindCategoryConflicts
  \/ Continue

SpecRan ==
  Init /\ [][NextRan]_vars

\* a caller of validateLensOutputs
NextValidate ==
  \/ CallValidateLensOutputs
  \/ Continue

SpecValidate ==
  Init /\ [][NextValidate]_vars

\* a caller of the hexagon metric helpers
NextHexagon ==
  \/ CallIsHexagonMetricConfigured
  \/ CallGetCategoryForHexagonMetric
  \/ CallGetHexagonMetricForCategory
  \/ CallGetColorModeForHexagonMetric
  \/ Continue

SpecHexagon ==
  Init /\ [][NextHexagon]_vars

\* a caller of the helpers that normalize a string before a table lookup
NextText ==
  \/ CallNormalizeLensId
  \/ CallDetectLanguageFromExtension
  \/ Continue

SpecText ==
  Init /\ [][NextText]_vars

\* a caller of the extraction functions
NextExtract ==
  \/ CallExtractQualityDataFromResults
  \/ CallExtractQualityDataWithPaths
  \/ Continue

SpecExtract ==
  Init /\ [][NextExtract]_vars

\* a caller of the color mode helpers
NextColor ==
  \/ CallGetLensColorModes
  \/ CallGetColorModeConfig
  \/ CallGetAvailableColorModesFromLenses
  \/ CallGetColorModesForLanguage
  \/ CallIsColorModeAvailable
  \/ Continue

SpecColor ==
  Init /\ [][NextColor]_vars

\* a caller of the default command helpers
NextDefaults ==
  \/ CallGetDefaultCommands
  \/ CallGetDefaultCommand
  \/ Continue

SpecDefaults ==
  Init /\ [][NextDefaults]_vars

\* callers that write to the containers they are handed
NextShared ==
  \/ CallGetLensById
  \/ CallGetLensesByCategory
  \/ CallGetColorModeConfig
  \/ CallGetDefaultCommands
  \/ WriteToReturned
  \/ Continue

SpecShared ==
  Init /\ [][NextShared]_vars

\* callers of every helper, none of them writing to what it is handed
NextAll ==
  \/ CallGetLensById
  \/ CallGetLensesByCategory
  \/ CallGetCategoryForLens
  \/ CallIsValidLensId
  \/ CallGetAlternatives
  \/ CallAreLensesAlternatives
  \/ CallGetColorModeForCategory
  \/ CallFindCategoryConflicts
  \/ CallValidateLensOutputs
  \/ CallIsHexagonMetricConfigured
  \/ CallGetCategoryForHexagonMetric
  \/ CallGetHexagonMetricForCategory
  \/ CallGetColorModeForHexagonMetric
  \/ CallNormalizeLensId
  \/ CallDetectLanguageFromExtension
  \/ CallExtractQualityDataFromResults
  \/ CallExtractQualityDataWithPaths
  \/ CallGetLensColorModes
  \/ CallGetColorModeConfig
  \/ CallGetAvailableColorModesFromLenses
  \/ CallGetDefaultCommands
  \/ CallGetDefaultCommand
  \/ CallGetColorModesForLanguage
  \/ CallIsColorModeAvailable
  \/ CallGetAllColorModeConfigs
  \/ Continue

SpecAll ==
  Init /\ [][NextAll]_vars

\* ------------------------------------------------------------------------
\* Properties
\* ------------------------------------------------------------------------

Returned(name) ==
  pc = "done" /\ fn = name

\* the ids a lens names in its alternativeTo, none when the property is absent
AltOf(x) ==
  IF "alternativeTo" \in DOMAIN x
    THEN {x.alternativeTo[k] : k \in DOMAIN x.alternativeTo}
    ELSE {}

Known(id) ==
  \E i \in DOMAIN registry : registry[i].id = id

\* the registry records at the positions S, in registry order
InRegistryOrder(S) ==
  LET positions == [i \in 1..Len(registry) |-> i]
      inS(i) == i \in S
      chosen == SelectSeq(positions, inS)
  IN  [k \in 1..Len(chosen) |-> registry[chosen[k]]]

\* positions of the lenses that name id in their alternativeTo
ListersOf(id) ==
  {i \in DOMAIN registry : id \in AltOf(registry[i])}

\* positions of the lenses that the lens id names in its own alternativeTo
ListedBy(id) ==
  {i \in DOMAIN registry :
     \E j \in DOMAIN registry :
       registry[j].id = id /\ registry[i].id \in AltOf(registry[j])}

NoIdTwice(lenses) ==
  \A a, b \in DOMAIN lenses : lenses[a].id = lenses[b].id => a = b

\* C1: getAlternatives(id), for an id of the registry, is the lenses whose
\* alternativeTo contains id, in registry order, followed by the lenses named
\* in id's own alternativeTo, in registry order, minus those already seen, so
\* no id occurs twice; for an id that is not in the registry (also one that a
\* lens names, like 'flake8') and for a lens with no relations it is empty.
C1_GetAlternatives ==
  Returned("getAlternatives") =>
    LET id == args.lensId
    IN  /\ Known(id) =>
             ret = InRegistryOrder(ListersOf(id))
                     \o InRegistryOrder(ListedBy(id) \ ListersOf(id))
        /\ NoIdTwice(ret)
        /\ ~Known(id) => ret = <<>>
        /\ (ListersOf(id) \cup ListedBy(id) = {}) => ret = <<>>

\* biome-lint is named by oxlint and names eslint: both lists are non-empty
C1_Witness ==
  /\ Returned("getAlternatives")
  /\ args.lensId = "biome-lint"
  /\ ListersOf("biome-lint") # {}
  /\ ListedBy("biome-lint") # {}
  /\ Len(ret) = 2

\* C2: areLensesAlternatives(id1, id2) is true exactly when both ids are
\* registry lenses of the same category and one of them names the other in
\* its alternativeTo; it is false when either id is unknown and for every
\* pair of different categories.
C2_AreLensesAlternatives ==
  Returned("areLensesAlternatives") =>
    LET id1 == args.lensId1
        id2 == args.lensId2
    IN  /\ ret = (\E i, j \in DOMAIN registry :
                    /\ registry[i].id = id1
                    /\ registry[j].id = id2
                    /\ registry[i].category = registry[j].category
                    /\ (id2 \in AltOf(registry[i]) \/ id1 \in AltOf(registry[j])))
        /\ (~Known(id1) \/ ~Known(id2)) => ret = FALSE
        /\ \A i, j \in DOMAIN registry :
             (registry[i].id = id1 /\ registry[j].id = id2
                /\ registry[i].category # registry[j].category) => ret = FALSE

\* oxlint names biome-lint, asked in the order (oxlint, biome-lint)
C2_Witness ==
  /\ Returned("areLensesAlternatives")
  /\ args.lensId1 = "oxlint"
  /\ args.lensId2 = "biome-lint"
  /\ ret = TRUE

\* C3: areLensesAlternatives is symmetric: the value returned for (a, b) is
\* the value of the call with the arguments exchanged, for known and unknown
\* ids alike.
C3_Symmetric ==
  Returned("areLensesAlternatives") =>
    ret = areLensesAlternatives(args.lensId2, args.lensId1)

\* eslint names nobody; only biome-lint names eslint
C3_Witness ==
  /\ Returned("areLensesAlternatives")
  /\ args.lensId1 = "eslint"
  /\ args.lensId2 = "biome-lint"
  /\ "alternativeTo" \notin DOMAIN getLensById("eslint")
  /\ ret = TRUE

\* C4: for every registry lens x and every y in x.alternativeTo that is a
\* registry lens of x's category: getAlternatives(y) contains x,
\* getAlternatives(x) contains y, and areLensesAlternatives(x, y) is true.
C4_AlternativesBothWays ==
  (Returned("getAlternatives") \/ Returned("areLensesAlternatives")) =>
  \A i, j \in DOMAIN registry :
    LET x == registry[i]
        y == registry[j]
    IN  (y.id \in AltOf(x) /\ y.category = x.category) =>
          /\ (Returned("getAlternatives") /\ args.lensId = y.id) => includes(ret, x)
          /\ (Returned("getAlternatives") /\ args.lensId = x.id) => includes(ret, y)
          /\ (Returned("areLensesAlternatives")
                /\ args.lensId1 = x.id /\ args.lensId2 = y.id) => ret = TRUE

\* jest is named by vitest and bun-test and names nobody itself
C4_Witness ==
  /\ Returned("getAlternatives")
  /\ args.lensId = "jest"
  /\ "jest" \in AltOf(getLensById("vitest"))
  /\ includes(ret, getLensById("vitest"))
  /\ includes(ret, getLensById("bun-test"))

\* the category of the registry lens with this id
CategoryOf(id) ==
  registry[CHOOSE i \in DOMAIN registry : registry[i].id = id].category

Min(S) ==
  CHOOSE m \in S : \A n \in S : m <= n

\* C5: getColorModeForCategory(category, lensesRan) returns the entry of
\* lensesRan with the smallest index whose id is a registry lens of that
\* category, and null when there is none (also for the empty list): the
\* caller's order decides, not the registry's, and unknown ids are skipped.
C5_FirstRanOfCategory ==
  Returned("getColorModeForCategory") =>
    LET ran == args.lensesRan
        qualifying == {i \in DOMAIN ran :
                         Known(ran[i]) /\ CategoryOf(ran[i]) = args.category}
    IN  IF qualifying = {}
          THEN ret = null
          ELSE ret = ran[Min(qualifying)]

\* eslint precedes biome-lint in the registry and follows it in lensesRan
C5_Witness ==
  /\ Returned("getColorModeForCategory")
  /\ args.category = "linting"
  /\ args.lensesRan = <<"flake8", "biome-lint", "eslint">>
  /\ ret = "biome-lint"

\* C6: lens ids are pairwise distinct in LENS_REGISTRY, so for every record
\* r of the registry getLensById(r.id) returns r itself,
\* getCategoryForLens(r.id) is r.category and isValidLensId(r.id) is true.
C6_UniqueIds ==
  /\ \A i, j \in DOMAIN registry : registry[i].id = registry[j].id => i = j
  /\ \A i \in DOMAIN registry :
       LET r == registry[i]
       IN  /\ (Returned("getLensById") /\ args.id = r.id) => ret = r
           /\ (Returned("getCategoryForLens") /\ args.lensId = r.id) => ret = r.category
           /\ (Returned("isValidLensId") /\ args.lensId = r.id) => ret = TRUE

\* the last record of the registry is found under its id
C6_Witness ==
  /\ Returned("getLensById")
  /\ args.id = registry[Len(registry)].id
  /\ ret = registry[Len(registry)]
  /\ ret.id = "bandit"

\* C7: for every lens x of LENS_REGISTRY and every id y in x.alternativeTo
\* that resolves to a registry lens, that lens has x's category and is not x
\* itself.
C7_AlternativesShareCategory ==
  \A i, j \in DOMAIN registry :
    registry[j].id \in AltOf(registry[i]) =>
      /\ registry[j].category = registry[i].category
      /\ j # i

\* pyright names mypy, which resolves to a lens of the category types
C7_Witness ==
  /\ Returned("getLensById")
  /\ args.id = "mypy"
  /\ "mypy" \in AltOf(getLensById("pyright"))
  /\ ret.category = getLensById("pyright").category

\* position of a record in the registry
PositionOf(r) ==
  CHOOSE i \in DOMAIN registry : registry[i] = r

RECURSIVE SumOfSizes(_)
SumOfSizes(categories) ==
  IF categories = {}
    THEN 0
    ELSE LET c == CHOOSE c \in categories : TRUE
         IN  Len(getLensesByCategory(c)) + SumOfSizes(categories \ {c})

\* C8: getLensesByCategory(c) returns exactly the registry records whose
\* category is c, in registry order, and the results over the eight
\* categories partition the registry: every record is in exactly one of them
\* and the sizes sum to the length of LENS_REGISTRY.
C8_CategoriesPartition ==
  Returned("getLensesByCategory") =>
    /\ \A k \in DOMAIN ret : ret[k].category = args.category /\ includes(registry, ret[k])
    /\ \A i \in DOMAIN registry :
         registry[i].category = args.category => includes(ret, registry[i])
    /\ \A a, b \in DOMAIN ret : a < b => PositionOf(ret[a]) < PositionOf(ret[b])
    /\ \A i \in DOMAIN registry :
         Cardinality({c \in LensCategory :
                        includes(getLensesByCategory(c), registry[i])}) = 1
    /\ SumOfSizes(LensCategory) = Len(registry)

\* the two dead-code lenses, and the category without any lens
C8_Witness ==
  /\ Returned("getLensesByCategory")
  /\ args.category = "dead-code"
  /\ Len(ret) = 2
  /\ ret[1].id = "knip"
  /\ getLensesByCategory("complexity") = <<>>

\* the entries of lensesRan that are registry lenses of category c, in order
RanOfCategory(ran, c) ==
  LET inCategory(id) == Known(id) /\ CategoryOf(id) = c
  IN  SelectSeq(ran, inCategory)

\* index in lensesRan of the first registry lens of category c
FirstOccurrence(ran, c) ==
  Min({i \in DOMAIN ran : Known(ran[i]) /\ CategoryOf(ran[i]) = c})

\* C9: findCategoryConflicts(lensesRan) skips ids that are not in the
\* registry, groups the others by lens category and returns one
\* {category, lenses} entry for exactly the categories that received two or
\* more entries of lensesRan; the lenses of an entry keep their order in
\* lensesRan, and the entries are ordered by the first occurrence of their
\* category in lensesRan.
C9_CategoryConflicts ==
  Returned("findCategoryConflicts") =>
    LET ran == args.lensesRan
    IN  /\ \A k \in DOMAIN ret :
             /\ ret[k].lenses = RanOfCategory(ran, ret[k].category)
             /\ Len(ret[k].lenses) >= 2
        /\ \A c \in LensCategory :
             Len(RanOfCategory(ran, c)) >= 2 =>
               Cardinality({k \in DOMAIN ret : ret[k].category = c}) = 1
        /\ \A a, b \in DOMAIN ret :
             a < b => FirstOccurrence(ran, ret[a].category)
                        < FirstOccurrence(ran, ret[b].category)
        /\ \A k \in DOMAIN ret : \A n \in DOMAIN ret[k].lenses : Known(ret[k].lenses[n])

\* formatting gets its second lens before linting does, linting occurs first
C9_Witness ==
  /\ Returned("findCategoryConflicts")
  /\ args.lensesRan = <<"eslint", "prettier", "biome-format", "biome-lint">>
  /\ ret = <<[category |-> "linting", lenses |-> <<"eslint", "biome-lint">>],
             [category |-> "formatting", lenses |-> <<"prettier", "biome-format">>]>>

Elements(list) ==
  {list[i] : i \in DOMAIN list}

\* the outputs a registry lens declares and the produced-lists do not back
MissingFor(id, fileMetricsProduced, aggregatesProduced) ==
  LET lens == registry[CHOOSE i \in DOMAIN registry : registry[i].id = id]
      noFileMetrics == lens.outputsFileMetrics /\ id \notin Elements(fileMetricsProduced)
      noAggregate == lens.outputsAggregate /\ id \notin Elements(aggregatesProduced)
  IN  IF noFileMetrics /\ noAggregate THEN <<"fileMetrics", "aggregate">>
      ELSE IF noFileMetrics THEN <<"fileMetrics">>
      ELSE IF noAggregate THEN <<"aggregate">>
      ELSE <<>>

\* C10: validateLensOutputs returns, in lensesRan order and skipping unknown
\* ids, one issue {lensId, missing} for each ran lens with at least one
\* declared output missing: 'fileMetrics' iff the lens declares
\* outputsFileMetrics and its id is not in fileMetricsProduced, 'aggregate'
\* iff it declares outputsAggregate and its id is not in aggregatesProduced,
\* 'fileMetrics' first; an output the lens does not declare is never reported.
C10_ValidateLensOutputs ==
  Returned("validateLensOutputs") =>
    LET ran == args.lensesRan
        fm == args.fileMetricsProduced
        ag == args.aggregatesProduced
        positions == [i \in 1..Len(ran) |-> i]
        hasIssue(i) == Known(ran[i]) /\ MissingFor(ran[i], fm, ag) # <<>>
        reported == SelectSeq(positions, hasIssue)
    IN  /\ ret = [k \in 1..Len(reported) |->
                    [lensId |-> ran[reported[k]],
                     missing |-> MissingFor(ran[reported[k]], fm, ag)]]
        /\ \A k \in DOMAIN ret :
             /\ ret[k].missing # <<>>
             /\ "fileMetrics" \in Elements(ret[k].missing) =>
                  /\ getLensById(ret[k].lensId).outputsFileMetrics
                  /\ ret[k].lensId \notin Elements(fm)
             /\ "aggregate" \in Elements(ret[k].missing) =>
                  /\ getLensById(ret[k].lensId).outputsAggregate
                  /\ ret[k].lensId \notin Elements(ag)

\* typedoc declares no file metrics: only its aggregate is reported missing
C10_Witness ==
  /\ Returned("validateLensOutputs")
  /\ args.lensesRan = <<"typedoc", "flake8", "eslint">>
  /\ args.fileMetricsProduced = <<>>
  /\ args.aggregatesProduced = <<>>
  /\ ~getLensById("typedoc").outputsFileMetrics
  /\ ret = <<[lensId |-> "typedoc", missing |-> <<"aggregate">>],
             [lensId |-> "eslint", missing |-> <<"fileMetrics", "aggregate">>]>>

\* C11: isHexagonMetricConfigured(metric, lensesRan) is tri-state: true when
\* lensesRan is undefined, false when it is the empty list, and otherwise
\* true exactly when some entry of lensesRan is a registry lens whose
\* category is the one mapped to the metric; unknown ids and lenses of other
\* categories do not count.
C11_HexagonMetricConfigured ==
  Returned("isHexagonMetricConfigured") =>
    LET category == IF args.metric = "deadCode" THEN "dead-code" ELSE args.metric
    IN  IF args.lensesRan = undefined
          THEN ret = TRUE
          ELSE LET ran == args.lensesRan.value
               IN  /\ ran = <<>> => ret = FALSE
                   /\ ret = (\E i \in DOMAIN ran :
                               Known(ran[i]) /\ CategoryOf(ran[i]) = category)

\* the three cases, seen from the dead-code metric
C11_Witness ==
  /\ Returned("isHexagonMetricConfigured")
  /\ args.metric = "deadCode"
  /\ args.lensesRan = defined(<<"flake8", "jest", "knip">>)
  /\ ret = TRUE
  /\ isHexagonMetricConfigured("deadCode", undefined)
  /\ ~isHexagonMetricConfigured("deadCode", defined(<<>>))
  /\ ~isHexagonMetricConfigured("deadCode", defined(<<"flake8", "jest">>))

\* C16: normalizeLensId(id) lower-cases id and then returns 'eslint' for
\* 'lint', 'typescript' for 'typecheck' and 'tsc', 'prettier' for 'format',
\* 'jest' for 'test' and the lower-cased id for every other input; the match
\* ignores case, is on the whole id and never on a part of it.
C16_NormalizeLensId ==
  Returned("normalizeLensId") =>
    LET id == args.lensId
    IN  IF id \in CaseVariants("lint") THEN ret = "eslint"
        ELSE IF id \in CaseVariants("typecheck") \cup CaseVariants("tsc") THEN ret = "typescript"
        ELSE IF id \in CaseVariants("format") THEN ret = "prettier"
        ELSE IF id \in CaseVariants("test") THEN ret = "jest"
        ELSE /\ \E w \in NormalizeWords : ret = w /\ id \in CaseVariants(w)
             /\ Len(ret) = Len(id)

\* an alias in upper case, and an id that only contains an alias
C16_Witness ==
  /\ Returned("normalizeLensId")
  /\ args.lensId = "LINT"
  /\ ret = "eslint"
  /\ normalizeLensId("Linter") = "linter"
  /\ normalizeLensId("unknown-tool") = "unknown-tool"

\* the language whose config lists the extension e, "undefined" if none does
LanguageListing(e) ==
  LET listing == {i \in 1..Len(LANGUAGE_CONFIGS) :
                    e \in {LANGUAGE_CONFIGS[i].extensions[k] :
                             k \in 1..Len(LANGUAGE_CONFIGS[i].extensions)}}
  IN  IF listing = {} THEN "undefined" ELSE LANGUAGE_CONFIGS[Min(listing)].id

\* C17: detectLanguageFromExtension(ext) prefixes '.' when ext does not start
\* with '.', lower-cases the result and returns the id of the language config
\* whose extensions contain exactly that string, undefined when none does:
\* the whole extension must match, so '.py', 'py' and 'PY' give 'python',
\* '.xyz' gives undefined, and every extension listed for a language gives
\* that language.
C17_DetectLanguage ==
  Returned("detectLanguageFromExtension") =>
    LET ext == args.extension
        spelt == {e \in ListedExtensions :
                    ext \in CaseVariants(e) \cup CaseVariants(SubSeq(e, 2, Len(e)))}
    IN  /\ spelt = {} => ret = "undefined"
        /\ \A e \in spelt : ret = LanguageListing(e)
        /\ ext \in ListedExtensions => ret = LanguageListing(ext) /\ ret # "undefined"
        /\ \A e1, e2 \in ListedExtensions :
             LanguageListing(e1) # LanguageListing(e2) => e1 # e2

\* 'PY' gets the dot and lower case; a name that ends in '.py' is no match
C17_Witness ==
  /\ Returned("detectLanguageFromExtension")
  /\ args.extension = "PY"
  /\ ret = "python"
  /\ detectLanguageFromExtension(".py") = "python"
  /\ detectLanguageFromExtension("py") = "python"
  /\ detectLanguageFromExtension(".xyz") = undefinedStr
  /\ detectLanguageFromExtension("x.py") = undefinedStr

\* ---- extraction ----

\* the coverage files of results[1..n], results in list order and files in
\* list order within a result
RECURSIVE CoverageTraversal(_, _)
CoverageTraversal(results, n) ==
  IF n = 0
    THEN <<>>
    ELSE CoverageTraversal(results, n - 1)
           \o (IF "coverage" \in DOMAIN results[n] /\ "files" \in DOMAIN results[n].coverage
                 THEN results[n].coverage.files
                 ELSE <<>>)

\* the position of the last occurrence of path p in a traversal
LastOccurrence(traversal, p) ==
  CHOOSE i \in DOMAIN traversal :
    /\ traversal[i].file = p
    /\ \A j \in DOMAIN traversal : j > i => traversal[j].file # p

\* a returned field, read as a map: undefined reads as the map with no key
FieldOrEmpty(slice, field) ==
  IF field \in DOMAIN slice THEN slice[field] ELSE emptyObject

\* C12: extractQualityDataFromResults returns under every path that occurs in
\* the coverage files of some result the lines value of the last occurrence of
\* that path, results taken in list order and files in list order within a
\* result, whatever lens the result carries; fileCoverage has no other key.
C12_CoverageLastWriterWins ==
  Returned("extractQualityDataFromResults") =>
    LET traversal == CoverageTraversal(args.results, Len(args.results))
        paths == {traversal[i].file : i \in DOMAIN traversal}
        fileCoverage == FieldOrEmpty(ret, "fileCoverage")
    IN  /\ DOMAIN fileCoverage = paths
        /\ \A p \in paths : fileCoverage[p] = traversal[LastOccurrence(traversal, p)].lines

\* two results with different lenses report different numbers for the same
\* path, and the later one is returned
C12_Witness ==
  /\ Returned("extractQualityDataFromResults")
  /\ Len(args.results) = 2
  /\ \A i \in 1..2 : "lens" \in DOMAIN args.results[i]
  /\ args.results[1].lens.id # args.results[2].lens.id
  /\ LET first == CoverageTraversal(args.results, 1)
         both == CoverageTraversal(args.results, 2)
     IN  \E i \in DOMAIN first, j \in DOMAIN both :
           /\ j > Len(first)
           /\ first[i].file = both[j].file
           /\ first[i].lines # both[j].lines
           /\ j = LastOccurrence(both, both[j].file)
           /\ ret.fileCoverage[both[j].file] = both[j].lines

\* the fileMetrics array of a result, empty when the result has none
MetricsOf(result) ==
  IF "fileMetrics" \in DOMAIN result THEN result.fileMetrics ELSE <<>>

\* the keys a result's lens id normalizes to: none when the result carries no
\* lens id
NormalizedIdOf(result) ==
  IF "lens" \in DOMAIN result /\ "id" \in DOMAIN result.lens
    THEN {normalizeLensId(result.lens.id)}
    ELSE {}

\* the same, where a result with no lens id or an empty one counts as a
\* result of the lens 'unknown'
NormalizedIdOrUnknown(result) ==
  IF "lens" \in DOMAIN result /\ "id" \in DOMAIN result.lens /\ result.lens.id # ""
    THEN {normalizeLensId(result.lens.id)}
    ELSE {normalizeLensId("unknown")}

\* the concatenation, in result order, of the fileMetrics arrays of the
\* results among results[1..n] whose key, as given by keysOf[i], is k
RECURSIVE ConcatenationFor(_, _, _, _)
ConcatenationFor(results, keysOf, k, n) ==
  IF n = 0
    THEN <<>>
    ELSE ConcatenationFor(results, keysOf, k, n - 1)
           \o (IF k \in keysOf[n] THEN MetricsOf(results[n]) ELSE <<>>)

\* fileMetrics holds, for the attribution keysOf of results to keys, one key
\* for every key of a result with a non-empty fileMetrics array and under it
\* the concatenation of those arrays
AccumulatedPer(results, keysOf, fileMetrics) ==
  LET keys == UNION {keysOf[i] : i \in {j \in DOMAIN results : Len(MetricsOf(results[j])) > 0}}
  IN  /\ DOMAIN fileMetrics = keys
      /\ \A k \in keys : fileMetrics[k] = ConcatenationFor(results, keysOf, k, Len(results))

\* C13, as stated: the keys of the returned fileMetrics are the normalized
\* lens ids of the results with a non-empty fileMetrics array, and under each
\* key is the concatenation, in result order and entry order, of the arrays of
\* the results whose lens id normalizes to the key.
C13_AsStated ==
  Returned("extractQualityDataFromResults") =>
    AccumulatedPer(args.results,
                   [i \in DOMAIN args.results |-> NormalizedIdOf(args.results[i])],
                   FieldOrEmpty(ret, "fileMetrics"))

\* C13, amended: the same, where a result that carries no lens, no lens id or
\* an empty lens id is filed under the key 'unknown', together with the
\* results whose lens id normalizes to 'unknown'.
C13_MetricsPerNormalizedId ==
  Returned("extractQualityDataFromResults") =>
    AccumulatedPer(args.results,
                   [i \in DOMAIN args.results |-> NormalizedIdOrUnknown(args.results[i])],
                   FieldOrEmpty(ret, "fileMetrics"))

\* two results whose lens ids differ and normalize to one key both bring
\* entries, some of them for the same file, and all of them are returned
C13_Witness ==
  /\ Returned("extractQualityDataFromResults")
  /\ Len(args.results) = 2
  /\ \A i \in 1..2 : "lens" \in DOMAIN args.results[i]
  /\ args.results[1].lens.id # args.results[2].lens.id
  /\ \E k \in DOMAIN FieldOrEmpty(ret, "fileMetrics") :
       /\ \A i \in 1..2 : NormalizedIdOf(args.results[i]) = {k}
       /\ Len(MetricsOf(args.results[1])) > 0
       /\ Len(MetricsOf(args.results[2])) > 0
       /\ Len(ret.fileMetrics[k]) = Len(MetricsOf(args.results[1])) + Len(MetricsOf(args.results[2]))
       /\ \E i, j \in DOMAIN ret.fileMetrics[k] :
            i # j /\ ret.fileMetrics[k][i].file = ret.fileMetrics[k][j].file

\* C14: each field returned by extractQualityDataFromResults and by
\* extractQualityDataWithPaths is undefined or a map with at least one key,
\* and every list under a key of fileMetrics has at least one entry.
C14_NoEmptyMap ==
  (Returned("extractQualityDataFromResults") \/ Returned("extractQualityDataWithPaths")) =>
    /\ DOMAIN ret \subseteq {"fileCoverage", "fileMetrics"}
    /\ \A field \in DOMAIN ret : DOMAIN ret[field] # {}
    /\ "fileMetrics" \in DOMAIN ret =>
         \A k \in DOMAIN ret.fileMetrics : Len(ret.fileMetrics[k]) > 0

\* results that carry coverage.files = [] and fileMetrics = [] and nothing
\* else give undefined in both fields, with path prefixing on
C14_Witness ==
  /\ Returned("extractQualityDataWithPaths")
  /\ args.prefixPaths
  /\ Len(args.results) = 2
  /\ \E i \in 1..2 : /\ "coverage" \in DOMAIN args.results[i]
                     /\ "files" \in DOMAIN args.results[i].coverage
                     /\ args.results[i].coverage.files = <<>>
  /\ \E i \in 1..2 : /\ "fileMetrics" \in DOMAIN args.results[i]
                     /\ args.results[i].fileMetrics = <<>>
  /\ DOMAIN ret = {}

\* the path the rewriting rule gives to path f of a result whose package path
\* is P: f under P, unless f already starts with P + '/'
PathUnder(P, f) ==
  IF P = "" \/ startsWith(f, P \o "/") THEN f ELSE P \o "/" \o f

\* a result with every coverage path and file-metric path rewritten by the rule
WithPathsUnderPackage(result) ==
  LET P == IF "package" \in DOMAIN result /\ "path" \in DOMAIN result.package
             THEN result.package.path
             ELSE ""
      moved(list) == [i \in DOMAIN list |-> [list[i] EXCEPT !.file = PathUnder(P, list[i].file)]]
      withCoverage == IF "coverage" \in DOMAIN result /\ "files" \in DOMAIN result.coverage
                        THEN [result EXCEPT !.coverage.files = moved(result.coverage.files)]
                        ELSE result
  IN  IF "fileMetrics" \in DOMAIN withCoverage
        THEN [withCoverage EXCEPT !.fileMetrics = moved(withCoverage.fileMetrics)]
        ELSE withCoverage

\* C15, as stated: extractQualityDataWithPaths(results, true) returns what
\* extractQualityDataFromResults returns for the results with every path f of
\* a result with package path P rewritten to P + '/' + f unless f already
\* starts with P + '/', paths of results with no package path unchanged; and
\* extractQualityDataWithPaths(results, false) returns what
\* extractQualityDataFromResults(results) returns.
C15_AsStated ==
  Returned("extractQualityDataWithPaths") =>
    IF args.prefixPaths
      THEN ret = extractQualityDataFromResults(
                   [i \in DOMAIN args.results |-> WithPathsUnderPackage(args.results[i])])
      ELSE ret = extractQualityDataFromResults(args.results)

\* ---- color modes ----

\* the lens of the registry with the given id that outputs file metrics, if any
MetricLenses(id) ==
  {lens \in Elements(registry) : lens.id = id /\ lens.outputsFileMetrics}

\* C18: getColorModeConfig returns for fileTypes, git and coverage the
\* built-in config of that id; for any other id that is the id of a registry
\* lens with outputsFileMetrics true a config with that id, the lens's name,
\* colorScheme and category, isBuiltIn false and the icon of the lens's
\* category; for every other id undefined.
C18_GetColorModeConfig ==
  Returned("getColorModeConfig") =>
    IF args.mode \in {"fileTypes", "git", "coverage"}
      THEN /\ ret \in Elements(BUILT_IN_COLOR_MODES)
           /\ ret.id = args.mode
           /\ ret.isBuiltIn = TRUE
      ELSE IF MetricLenses(args.mode) # {}
        THEN \E lens \in MetricLenses(args.mode), config \in Elements(CATEGORY_CONFIGS) :
               /\ config.id = lens.category
               /\ ret # undefined
               /\ ret.id = args.mode
               /\ ret.name = lens.name
               /\ ret.colorScheme = lens.colorScheme
               /\ ret.category = lens.category
               /\ ret.isBuiltIn = FALSE
               /\ ret.icon = config.icon
        ELSE ret = undefined

\* knip outputs file metrics and gets the icon of the dead-code category
C18_Witness ==
  /\ Returned("getColorModeConfig")
  /\ args.mode = "knip"
  /\ ret # undefined
  /\ ret.isBuiltIn = FALSE
  /\ ret.category = "dead-code"
  /\ ret.icon = "Trash2"

\* C19: every mode that getLensColorModes returns, which are the ids of the
\* registry lenses with outputsFileMetrics true, has a config, the config's
\* id is the mode and the config is not a built-in one.
C19_RoundTrip ==
  Returned("getLensColorModes") =>
    /\ Elements(ret) = {lens.id : lens \in {l \in Elements(registry) : l.outputsFileMetrics}}
    /\ \A i \in DOMAIN ret :
         LET config == getColorModeConfig(ret[i])
         IN  /\ config # undefined
             /\ config.id = ret[i]
             /\ config.isBuiltIn = FALSE

\* the modes of the shipped registry: eslint among them, typedoc not
C19_Witness ==
  /\ Returned("getLensColorModes")
  /\ "eslint" \in Elements(ret)
  /\ "typedoc" \notin Elements(ret)
  /\ Len(ret) = Len(registry) - 2

\* C20: getAvailableColorModesFromLenses returns fileTypes, git, coverage
\* followed by the entries of lensesRan, in their order, that are the id of
\* a registry lens with outputsFileMetrics true, and by nothing else.
C20_AvailableFromLenses ==
  Returned("getAvailableColorModesFromLenses") =>
    LET lensMode(id) == MetricLenses(id) # {}
    IN  ret = <<"fileTypes", "git", "coverage">> \o SelectSeq(args.lensesRan, lensMode)

\* of typedoc, jest, flake8 and eslint only jest and eslint become modes
C20_Witness ==
  /\ Returned("getAvailableColorModesFromLenses")
  /\ args.lensesRan = <<"typedoc", "jest", "flake8", "eslint">>
  /\ ret = <<"fileTypes", "git", "coverage", "jest", "eslint">>

\* ---- hexagon mappings ----

\* C21: the two hexagon tables are inverse to each other: the category of a
\* metric key maps back to the key, the key of a category that has one maps
\* back to the category; deadCode goes to dead-code and every other key to the
\* category of the same name; the categories without a key are exactly
\* security and complexity.
C21_HexagonMapsInverse ==
  /\ Returned("getCategoryForHexagonMetric") =>
       /\ getHexagonMetricForCategory(ret) = args.metric
       /\ ret = (IF args.metric = "deadCode" THEN "dead-code" ELSE args.metric)
  /\ Returned("getHexagonMetricForCategory") =>
       /\ ret = undefinedStr <=> args.category \in {"security", "complexity"}
       /\ ret # undefinedStr =>
            /\ ret \in HexagonMetricKey
            /\ getCategoryForHexagonMetric(ret) = args.category

\* the one pair whose two names differ, looked up from the category
C21_Witness ==
  /\ Returned("getHexagonMetricForCategory")
  /\ args.category = "dead-code"
  /\ ret = "deadCode"
  /\ getCategoryForHexagonMetric(ret) = "dead-code"

\* C27: for a list lensesRan that is given, empty or not, a hexagon metric is
\* reported configured exactly when getColorModeForHexagonMetric returns a
\* lens id for it and not null.
C27_ConfiguredIffColorMode ==
  Returned("getColorModeForHexagonMetric") =>
    (isHexagonMetricConfigured(args.metric, defined(args.lensesRan)) <=> ret # null)

\* knip ran after lenses of other categories and an unknown id: deadCode is
\* configured and knip is its color mode
C27_Witness ==
  /\ Returned("getColorModeForHexagonMetric")
  /\ args.metric = "deadCode"
  /\ args.lensesRan = <<"flake8", "eslint", "knip">>
  /\ ret = "knip"
  /\ isHexagonMetricConfigured(args.metric, defined(args.lensesRan))

\* ---- default commands ----

\* C30, as stated: every entry of getDefaultCommands(L) carries the id of a
\* registry lens whose languages include L, and no lens id occurs twice in
\* the list of one language, so that getDefaultCommand(id, L) is the only row
\* of L's list with that id.
C30_AsStated ==
  /\ Returned("getDefaultCommands") =>
       /\ \A i \in DOMAIN ret :
            \E lens \in Elements(registry) :
              /\ lens.id = ret[i].lensId
              /\ includes(lens.languages, args.language)
       /\ \A i, j \in DOMAIN ret : ret[i].lensId = ret[j].lensId => i = j
  /\ (Returned("getDefaultCommand") /\ args.language # undefinedStr /\ ret # undefined) =>
       {c \in Elements(getDefaultCommands(args.language)) : c.lensId = args.lensId} = {ret}

\* ---- tables and returned containers ----

\* the tables hold what they were loaded with
TablesAsLoaded ==
  /\ registry = LENS_REGISTRY
  /\ categoryConfigs = CATEGORY_CONFIGS
  /\ languageConfigs = LANGUAGE_CONFIGS
  /\ builtInColorModes = BUILT_IN_COLOR_MODES
  /\ defaultCommands = DefaultCommandArrays

\* C22, as stated: the container a helper returns is never an object of a
\* table, and whatever callers write to the containers they were handed, the
\* tables that the later calls read hold what they were loaded with.
C22_AsStated ==
  /\ pc = "done" => returnedObject(fn, args) = fresh
  /\ TablesAsLoaded

C24_AsStated ==
  Returned("getColorModesForLanguage") =>
    LET supports(lens) == lens.outputsFileMetrics /\ args.language \in Elements(lens.languages)
        lenses == SelectSeq(registry, supports)
    IN  ret = <<"fileTypes", "git", "coverage">> \o [i \in 1..Len(lenses) |-> lenses[i].id]

\* C25, as stated: for a built-in mode or a registry lens id m and a list
\* lensesRan, isColorModeAvailable(m, lensesRan) is true exactly when m is an
\* element of getAvailableColorModesFromLenses(lensesRan).
C25_AsStated ==
  Returned("isColorModeAvailable") =>
    (ret <=> args.mode \in Elements(getAvailableColorModesFromLenses(args.lensesRan)))

\* ---- agreement of the alternative queries ----

\* C26: for registry lens ids a and b, areLensesAlternatives(a, b) is true
\* exactly when the lens b is an element of getAlternatives(a), and no lens
\* is an alternative of itself by either query.
C26_AlternativeQueriesAgree ==
  /\ (Returned("areLensesAlternatives") /\ args.lensId1 \in RegistryIds
        /\ args.lensId2 \in RegistryIds) =>
       /\ ret <=> \E lens \in Elements(getAlternatives(args.lensId1)) : lens.id = args.lensId2
       /\ args.lensId1 = args.lensId2 => ret = FALSE
  /\ (Returned("getAlternatives") /\ args.lensId \in RegistryIds) =>
       \A lens \in Elements(ret) : lens.id # args.lensId

\* oxlint lists eslint and biome-lint: asked from eslint's side both queries
\* say yes, and for the lens itself both say no
C26_Witness ==
  /\ Returned("areLensesAlternatives")
  /\ args.lensId1 = "eslint"
  /\ args.lensId2 = "oxlint"
  /\ ret = TRUE
  /\ "oxlint" \in {lens.id : lens \in Elements(getAlternatives("eslint"))}
  /\ ~areLensesAlternatives("eslint", "eslint")

\* C28, as stated: every entry that findCategoryConflicts returns names at
\* least two different lens ids, all of them lenses of the entry's category,
\* and names none of them twice, also when lensesRan repeats an id.
C28_AsStated ==
  Returned("findCategoryConflicts") =>
    \A k \in DOMAIN ret :
      /\ Cardinality(Elements(ret[k].lenses)) >= 2
      /\ Cardinality(Elements(ret[k].lenses)) = Len(ret[k].lenses)
      /\ \A id \in Elements(ret[k].lenses) :
           \E lens \in Elements(registry) : lens.id = id /\ lens.category = ret[k].category

\* the package path of a result, empty when it has none
PackagePath(result) ==
  IF "package" \in DOMAIN result /\ "path" \in DOMAIN result.package
    THEN result.package.path
    ELSE ""

\* the coverage paths and file-metric paths that a result carries
PathsOf(result) ==
  {f.file : f \in Elements(IF "coverage" \in DOMAIN result /\ "files" \in DOMAIN result.coverage
                             THEN result.coverage.files
                             ELSE <<>>)}
    \cup {m.file : m \in Elements(MetricsOf(result))}

\* the coverage keys and file-metric paths of a returned slice
EmittedPaths(slice) ==
  DOMAIN FieldOrEmpty(slice, "fileCoverage")
    \cup UNION {{m.file : m \in Elements(slice.fileMetrics[k])} :
                  k \in DOMAIN FieldOrEmpty(slice, "fileMetrics")}

\* C29, as stated: with prefixPaths = true every path that
\* extractQualityDataWithPaths emits comes from a result without package path
\* and is that result's path, or comes from a result with package path P and
\* starts with P + '/'.
C29_AsStated ==
  (Returned("extractQualityDataWithPaths") /\ args.prefixPaths) =>
    \A q \in EmittedPaths(ret) :
      \E result \in Elements(args.results) :
        IF PackagePath(result) = ""
          THEN q \in PathsOf(result)
          ELSE startsWith(q, PackagePath(result) \o "/")

====
